---- MODULE Spec2Model ----
(***************************************************************************)
(* Streaming completion relay of ai-arena.                                 *)
(*                                                                         *)
(*   src/lib/ai-providers.ts      the three upstream adapters              *)
(*   src/app/api/chat/route.ts    the relay controller (POST, SSE branch)  *)
(*   src/app/api/chat/route.ts    the history builder, request validation  *)
(*   src/hooks/use-ai-debate.ts   the client consumer loop                 *)
(*   src/hooks/use-hybrid-ai.ts   the client side Ollama prompt            *)
(*   src/app/page.tsx             the page that calls the client loop      *)
(*                                                                         *)
(* Bytes and characters are symbols.  One symbol stands for a fixed run of *)
(* bytes of the wire format:                                               *)
(*   "D"   the prefix `data: `                                             *)
(*   "{"   the opening of a JSON object up to the text field               *)
(*   "}"   the closing of the JSON object                                  *)
(*   "a"   a one-byte character of a text field                            *)
(*   "h" "l"  the lead and continuation byte of a two-byte character; the  *)
(*         decoded character is written "e"                                *)
(*   "?"   U+FFFD, what TextDecoder emits for a broken byte sequence       *)
(*   "S"   the stop field of a JSON object (Anthropic type message_stop,   *)
(*         Ollama done: true)                                              *)
(*   "X"   the text `[DONE]`                                               *)
(*   "R"   the error field of an outbound JSON object                      *)
(*   "w"   white space other than a newline (blank, \r)                    *)
(*   "\n"  the newline                                                     *)
(***************************************************************************)
EXTENDS Integers, Sequences, FiniteSets, TLC

\* ------------------------------------------------------------------ bounds
MaxRecords == 2

\* ------------------------------------------------------------ text helpers
NL == "\n"

IsPrefix(s, t) == Len(s) <= Len(t) /\ SubSeq(t, 1, Len(s)) = s

RECURSIVE Flatten(_)
Flatten(ss) == IF ss = <<>> THEN <<>> ELSE Head(ss) \o Flatten(Tail(ss))

\* String.prototype.split('\n'): the segments between newlines, at least one.
RECURSIVE Split(_)
Split(s) ==
  IF \A i \in 1..Len(s) : s[i] # NL
    THEN <<s>>
    ELSE LET i == CHOOSE j \in 1..Len(s) :
                    s[j] = NL /\ \A k \in 1..(j - 1) : s[k] # NL
         IN  <<SubSeq(s, 1, i - 1)>> \o Split(SubSeq(s, i + 1, Len(s)))

\* Array.prototype.pop applied to the result of split: the last segment
\* becomes the buffer (`lines.pop() || ''`), the others are the lines.
\* Variant of PopLines: the segment after the last newline is kept as a line.
PopLinesAll(segs) == segs
PopLines(segs) == SubSeq(segs, 1, Len(segs) - 1)
\* Variant of PopBuffer: the trailing partial record is dropped.
PopBufferDropped(segs) == <<>>
PopBuffer(segs) == segs[Len(segs)]

\* String.prototype.trim
RECURSIVE TrimLeft(_)
TrimLeft(s) == IF s # <<>> /\ Head(s) = "w" THEN TrimLeft(Tail(s)) ELSE s
RECURSIVE TrimRight(_)
TrimRight(s) ==
  IF s # <<>> /\ s[Len(s)] = "w" THEN TrimRight(SubSeq(s, 1, Len(s) - 1)) ELSE s
Trim(s) == TrimRight(TrimLeft(s))

StartsWithData(s) == s # <<>> /\ Head(s) = "D"
Slice6(s) == Tail(s)

\* TextDecoder.decode(value, {stream: true}): a lead byte at the end of a
\* chunk is kept in the decoder until the next chunk; a lead byte without its
\* continuation, or a continuation without a lead, decodes to U+FFFD.
RECURSIVE DecodeFrom(_, _)
DecodeFrom(pending, bytes) ==
  IF bytes = <<>>
    THEN [text |-> <<>>, pending |-> pending]
    ELSE LET b == Head(bytes) IN
         IF pending
           THEN IF b = "l"
                  THEN LET r == DecodeFrom(FALSE, Tail(bytes))
                       IN  [text |-> <<"e">> \o r.text, pending |-> r.pending]
                  ELSE LET r == DecodeFrom(FALSE, bytes)
                       IN  [text |-> <<"?">> \o r.text, pending |-> r.pending]
           ELSE IF b = "h"
                  THEN DecodeFrom(TRUE, Tail(bytes))
                  ELSE LET r == DecodeFrom(FALSE, Tail(bytes))
                       IN  [text |-> <<(IF b = "l" THEN "?" ELSE b)>> \o r.text,
                            pending |-> r.pending]
DecodeStream(pending, bytes) == DecodeFrom(pending, bytes)

\* JSON.parse of a payload.  A payload is well formed when it is one object
\* "{" body "}" whose body is, in this order, an optional error field ("R"
\* and its message), a run of text characters, and an optional stop field;
\* everything else raises SyntaxError.
TextChars == {"a", "e", "?"}
Messages == {"mApi", "mNoReader", "mRead", "mUnknown"}
JsonTextOk(b) ==
  \/ \A i \in 1..Len(b) : b[i] \in TextChars
  \/ /\ b # <<>>
     /\ b[Len(b)] = "S"
     /\ \A i \in 1..(Len(b) - 1) : b[i] \in TextChars
JsonHasError(b) == Len(b) >= 2 /\ b[1] = "R" /\ b[2] \in Messages
JsonBodyOk(b) ==
  IF JsonHasError(b) THEN JsonTextOk(SubSeq(b, 3, Len(b))) ELSE JsonTextOk(b)
JSONparse(p) ==
  LET q == Trim(p) IN
  IF Len(q) >= 2 /\ q[1] = "{" /\ q[Len(q)] = "}"
       /\ JsonBodyOk(SubSeq(q, 2, Len(q) - 1))
    THEN LET b0 == SubSeq(q, 2, Len(q) - 1)
             b == IF JsonHasError(b0) THEN SubSeq(b0, 3, Len(b0)) ELSE b0
             stop == b # <<>> /\ b[Len(b)] = "S"
         IN  [ok |-> TRUE,
              error |-> IF JsonHasError(b0) THEN b0[2] ELSE "",
              text |-> IF stop THEN SubSeq(b, 1, Len(b) - 1) ELSE b,
              stop |-> stop]
    ELSE [ok |-> FALSE, error |-> "", text |-> <<>>, stop |-> FALSE]

\* -------------------------------------------------- the three line parsers
\* The effect of the body of `for (const line of lines)` on one line:
\* frag is the text it yields (<<>> for none), term tells that the terminal
\* test of the adapter is true for the line.
NoEffect == [frag |-> <<>>, term |-> FALSE]

OpenAILineFatal(line) ==
  LET trimmed == Trim(line) IN
  IF trimmed = <<>> THEN NoEffect
  ELSE IF trimmed = <<"D", "X">> THEN [frag |-> <<>>, term |-> TRUE]
  ELSE IF ~StartsWithData(trimmed) THEN NoEffect
  ELSE LET json == JSONparse(Slice6(trimmed)) IN
       IF json.ok THEN [frag |-> json.text, term |-> FALSE]
       ELSE [frag |-> <<>>, term |-> TRUE]

OpenAILine(line) ==
  LET trimmed == Trim(line) IN
  IF trimmed = <<>> THEN NoEffect
  ELSE IF trimmed = <<"D", "X">> THEN [frag |-> <<>>, term |-> TRUE]
  ELSE IF ~StartsWithData(trimmed) THEN NoEffect
  ELSE LET json == JSONparse(Slice6(trimmed)) IN
       IF json.ok THEN [frag |-> json.text, term |-> FALSE] ELSE NoEffect

AnthropicLine(line) ==
  LET trimmed == Trim(line) IN
  IF trimmed = <<>> THEN NoEffect
  ELSE IF ~StartsWithData(trimmed) THEN NoEffect
  ELSE LET json == JSONparse(Slice6(trimmed)) IN
       IF ~json.ok THEN NoEffect
       ELSE IF json.stop THEN [frag |-> <<>>, term |-> TRUE]
       ELSE [frag |-> json.text, term |-> FALSE]

OllamaLine(line) ==
  LET trimmed == Trim(line) IN
  IF trimmed = <<>> THEN NoEffect
  ELSE LET json == JSONparse(trimmed) IN
       IF json.ok THEN [frag |-> json.text, term |-> json.stop] ELSE NoEffect

Wires == {"openai", "anthropic", "ollama"}

LineEffect(w, line) ==
  CASE w = "openai" -> OpenAILine(line)
    [] w = "anthropic" -> AnthropicLine(line)
    [] w = "ollama" -> OllamaLine(line)

\* Variant of RunLines: the terminal test does not leave the loop.
RECURSIVE RunLinesFrom(_, _, _)
RunLinesFrom(w, ls, seen) ==
  IF ls = <<>>
    THEN [out |-> "exhausted", frag |-> <<>>, rest |-> <<>>, stop |-> FALSE,
          term |-> seen]
    ELSE LET e == LineEffect(w, Head(ls)) IN
         IF e.frag # <<>>
           THEN [out |-> "yield", frag |-> e.frag, rest |-> Tail(ls),
                 stop |-> FALSE, term |-> seen \/ e.term]
           ELSE RunLinesFrom(w, Tail(ls), seen \/ e.term)
RunLinesNoReturn(w, ls) == RunLinesFrom(w, ls, FALSE)

\* The for loop over the complete lines of one chunk, run until it suspends
\* at a yield, executes `return`, or runs out of lines.
\*   out    "yield" | "return" | "exhausted"
\*   frag   the yielded text
\*   rest   the lines after the one that yielded
\*   stop   the yielding line also satisfies the terminal test, which is
\*          evaluated when the generator is resumed
\*   term   the terminal test was evaluated to true
RECURSIVE RunLines(_, _)
RunLines(w, ls) ==
  IF ls = <<>>
    THEN [out |-> "exhausted", frag |-> <<>>, rest |-> <<>>, stop |-> FALSE,
          term |-> FALSE]
    ELSE LET e == LineEffect(w, Head(ls)) IN
         IF e.frag # <<>>
           THEN [out |-> "yield", frag |-> e.frag, rest |-> Tail(ls),
                 stop |-> e.term, term |-> FALSE]
           ELSE IF e.term
                  THEN [out |-> "return", frag |-> <<>>, rest |-> <<>>,
                        stop |-> FALSE, term |-> TRUE]
                  ELSE RunLines(w, Tail(ls))


\* Every fragment the for loop yields when it is run to its end over ls.
RECURSIVE Drain(_, _)
Drain(w, ls) ==
  LET r == RunLines(w, ls) IN
  IF r.out = "yield"
    THEN <<r.frag>> \o (IF r.stop THEN <<>> ELSE Drain(w, r.rest))
    ELSE <<>>

\* ----------------------------------------------------------- upstream data
\* Records a provider can send, without their newline.
Templates ==
  { <<>>,                                  \* blank line between SSE events
    <<"D", "{", "a", "}">>,                \* data record with text "a"
    <<"w", "D", "{", "h", "l", "}", "w">>, \* padded, two-byte character
    <<"D", "X">>,                          \* data: [DONE]
    <<"D", "{", "S", "}">>,                \* data record with the stop field
    <<"{", "a", "}">>,                     \* bare JSON record with text "a"
    <<"{", "h", "l", "S", "}">>,           \* bare JSON, text and stop field
    <<"D", "{", "a">> }                    \* truncated JSON

\* What may follow the last newline when the provider closes the stream.
Tails == { <<>>, <<"D", "{", "a", "}">>, <<"{", "S", "}">> }

RECURSIVE RecordStreams(_)
RecordStreams(n) ==
  IF n = 0 THEN {<<>>}
  ELSE LET shorter == RecordStreams(n - 1)
       IN  shorter \cup {t \o <<NL>> \o s : t \in Templates, s \in shorter}

Streams == {s \o t : s \in RecordStreams(MaxRecords), t \in Tails}

\* ------------------------------------------------- outbound wire protocol
\* TextEncoder.encode: the two-byte character becomes its two bytes.
RECURSIVE Encode(_)
Encode(t) ==
  IF t = <<>> THEN <<>>
  ELSE (IF Head(t) = "e" THEN <<"h", "l">> ELSE <<Head(t)>>) \o Encode(Tail(t))

\* encoder.encode(`data: ${JSON.stringify({content: chunk})}\n\n`)
ContentEvent(chunk) == <<"D", "{">> \o Encode(chunk) \o <<"}", NL, NL>>
\* encoder.encode('data: [DONE]\n\n')
DoneEvent == <<"D", "X", NL, NL>>
\* encoder.encode(`data: ${JSON.stringify({error: errorMessage})}\n\n`)
ErrorEvent(m) == <<"D", "{", "R", m, "}", NL, NL>>

\* Variant of ErrorMessageOf: the message of the error is not used.
ErrorMessageUnknown(e) == "mUnknown"

\* `error instanceof Error ? error.message : 'Unknown error'`
ErrorMessageOf(e) == IF e.isError THEN e.message ELSE "mUnknown"

\* What a reader of the outbound channel finds in one written event.
EventRead(ev) ==
  LET line == Head(Split(DecodeFrom(FALSE, ev).text)) IN
  IF line = <<"D", "X">> THEN [kind |-> "done", text |-> <<>>, error |-> ""]
  ELSE LET json == JSONparse(Slice6(line)) IN
       IF json.error # ""
         THEN [kind |-> "error", text |-> <<>>, error |-> json.error]
         ELSE [kind |-> "content", text |-> json.text, error |-> ""]

RECURSIVE ContentPayloads(_)
ContentPayloads(out) ==
  IF out = <<>> THEN <<>>
  ELSE (IF EventRead(Head(out)).kind = "content"
          THEN <<EventRead(Head(out)).text>> ELSE <<>>)
       \o ContentPayloads(Tail(out))

EventsOfKind(out, k) == {i \in 1..Len(out) : EventRead(out[i]).kind = k}

\* ------------------------------------------------------------------- state
VARIABLES
  mode,         \* which part of the program runs: "adapter", "relay",
                \* "client", "builder", "post"
  wire,         \* the adapter in use
  upstream,     \* the bytes the provider sends on this request
  upPos,        \* number of bytes already returned by reader.read()
  decPending,   \* TextDecoder holds a lead byte
  buffer,       \* `buffer`
  lines,        \* lines of the current chunk not yet visited by the for loop
  lineStop,     \* the generator is suspended at a yield of a line whose
                \* terminal test is true
  apc,          \* position of the generator: "fetch", "read", "yield",
                \* "resume", "returned", "threw"
  readerLocked, \* reader holds the lock of response.body
  genErr,       \* the value the generator threw
  yielded,      \* history: fragments yielded so far
  reads,        \* history: number of reader.read() calls settled
  termParsed,   \* history: a terminal test was true
  heldBack,     \* history: a chunk ended inside a record
  chan,         \* state of the outbound ReadableStream: "readable", "closed",
                \* "errored"
  clientGone,   \* the client closed the outbound channel
  outbound,     \* the events enqueued on the outbound channel
  cpc,          \* position of start(controller): "idle", "loop", "done"
  closes,       \* history: controller.close() calls that completed
  failedOps,    \* history: enqueue/close calls that threw
  escaped,      \* an exception left start(controller)
  outAtGone,    \* history: Len(outbound) when the client left
  newReads,     \* history: reader.read() calls started after the client left
  variant,      \* the client loop in use: "abortable", "plain", "hybrid"
  sent,         \* the fragments the server delivered on this response
  ending,       \* what the server wrote last: "done", "error", "apiError",
                \* "none"
  net,          \* the bytes of the response body
  netPos,       \* number of bytes already returned by reader.read()
  fullResponse, \* `fullResponse`
  chunkCalls,   \* history: the arguments of the onStreamChunk calls
  kpc,          \* position of the client loop: "idle", "read", "resolved",
                \* "rejected"
  result,       \* the text generateAIResponse resolved with
  rejectMsg,    \* the message of the Error it rejected with
  clientLocked, \* the client's reader holds the lock of response.body
  timer,        \* the 60-second timer of the abortable loop: "none", "armed",
                \* "cleared", "fired"
  signal,       \* abortController.signal: "live", "aborted"
  releaseLog,   \* history: the outcome of every reader.releaseLock() call of
                \* the client: "released", "noop", "raised"
  streamingMessage, \* `streamingMessage` of the page
  aiMessages,   \* the AI messages the page appended to the session
  history,      \* the stored messages of the session, oldest first
  builtFor,     \* the role the last prompt was built for
  prompt,       \* the last prompt built
  hpc,          \* which builder made prompt: "none", "server", "ollama"
  request,      \* the request POST /api/chat received
  httpResponse, \* the answer of POST /api/chat
  convTable,    \* table conversations: id -> status of every stored row
  msgTable,     \* table messages: the stored rows, oldest first
  nextCuid,     \* the next id cuid() hands out to a conversation
  msgCount,     \* history: number of message rows created
  posting,      \* the POST .../messages in flight: conversation id and the
                \* statement it runs next, or NoPosting
  deleted,      \* history: ids for which DELETE answered success
  dbResponse,   \* the last answer of the conversation routes
  slugTitle,    \* the title of the conversation a link is made for
  slugId,       \* its id
  convList,     \* the ids of the conversations the page has loaded
  slug,         \* createConversationSlug(title, id)
  shortId,      \* extractIdFromSlug(slug)
  found,        \* findConversationByShortId(conversations, shortId): the id
                \* of the conversation found, in a sequence; <<>> for null
  spc,          \* what was computed last: "none", "input", "slug", "short",
                \* "found"
  currentSessionId, \* `currentSessionId`; 0 for null
  sessionLen,   \* messages.length of every session, by session id
  sessionStatus, \* status of every session: "active", "paused"
  isDebateActive, \* `isDebateActive`
  isGenerating, \* `isGenerating` of the hook
  timers,       \* the setTimeout callbacks not yet run, each with the values
                \* of the render that made it
  inflight,     \* the generateAIDebateResponse calls that await their
                \* response
  turnLog,      \* history: <<"ask", role, session>> for every
                \* generateAIResponse call, <<"resp", role, session>> for
                \* every response that resolved
  hookCalls,    \* the streaming generateAIResponse calls of useAIDebate, in
                \* the order made: position, whether the signal of the
                \* call's AbortController is aborted, whether an earlier
                \* call was in flight when it was made
  currentAbortController, \* `currentAbortController`: the call whose
                \* controller is stored; 0 for null
  heldController, \* currentAbortController of the render whose
                \* generateAIResponse and cleanup the caller holds
  fallbackCalls \* history: generateResponse requests made by
                \* handleOllamaRequest after a failed stream

adapterVars == <<wire, upstream, upPos, decPending, buffer, lines, lineStop,
                 apc, readerLocked, genErr, yielded, reads, termParsed,
                 heldBack>>

relayVars == <<chan, clientGone, outbound, cpc, closes, failedOps, escaped,
               outAtGone, newReads>>

clientVars == <<variant, sent, ending, net, netPos, fullResponse, chunkCalls,
                kpc, result, rejectMsg, clientLocked, timer, signal,
                releaseLog, streamingMessage, aiMessages>>

builderVars == <<history, builtFor, prompt, hpc>>

postVars == <<request, httpResponse>>

dbVars == <<convTable, msgTable, nextCuid, msgCount, posting, deleted,
            dbResponse>>

slugVars == <<slugTitle, slugId, convList, slug, shortId, found, spc>>

turnVars == <<currentSessionId, sessionLen, sessionStatus, isDebateActive,
              isGenerating, timers, inflight, turnLog>>

hookVars == <<hookCalls, currentAbortController, heldController,
              fallbackCalls>>

appVars == <<dbVars, slugVars, turnVars, hookVars>>

serverVars == <<builderVars, postVars, appVars>>

vars == <<mode, adapterVars, relayVars, clientVars, serverVars>>

NoError == [isError |-> FALSE, message |-> ""]

InitGen(streams) ==
  /\ wire \in Wires
  /\ upstream \in streams
  /\ upPos = 0
  /\ decPending = FALSE
  /\ buffer = <<>>
  /\ lines = <<>>
  /\ lineStop = FALSE
  /\ apc = "fetch"
  /\ readerLocked = FALSE
  /\ genErr = NoError
  /\ yielded = <<>>
  /\ reads = 0
  /\ termParsed = FALSE
  /\ heldBack = FALSE

InitController(pc) ==
  /\ chan = "readable"
  /\ clientGone = FALSE
  /\ outbound = <<>>
  /\ cpc = pc
  /\ closes = 0
  /\ failedOps = 0
  /\ escaped = FALSE
  /\ outAtGone = 0
  /\ newReads = 0

\* No prompt is built.
InitNoBuilder ==
  /\ history = <<>>
  /\ builtFor = "defender"
  /\ prompt = <<>>
  /\ hpc = "none"

NoResponse ==
  [status |-> 0, kind |-> "none", upstream |-> FALSE, errorEvent |-> FALSE,
   answer |-> <<>>, content |-> <<>>]

\* No request is received.
InitNoPost ==
  /\ request = [received |-> FALSE]
  /\ httpResponse = NoResponse

\* No request of the conversation routes is in flight.
NoPosting == [id |-> 0, next |-> "none"]

NoDbResponse == [op |-> "none", id |-> 0, status |-> 0, rows |-> <<>>]

\* The database is empty.
InitDb ==
  /\ convTable = <<>>
  /\ msgTable = <<>>
  /\ nextCuid = 1
  /\ msgCount = 0
  /\ posting = NoPosting
  /\ deleted = {}
  /\ dbResponse = NoDbResponse

\* No link is being made.
InitNoSlug ==
  /\ slugTitle = <<>>
  /\ slugId = <<>>
  /\ convList = <<>>
  /\ slug = <<>>
  /\ shortId = <<>>
  /\ found = <<>>
  /\ spc = "none"

\* The page before a conversation is made.
InitPage ==
  /\ currentSessionId = 0
  /\ sessionLen = <<>>
  /\ sessionStatus = <<>>
  /\ isDebateActive = FALSE
  /\ isGenerating = FALSE
  /\ timers = {}
  /\ inflight = {}
  /\ turnLog = <<>>

\* The hooks before a call is made.
InitHook ==
  /\ hookCalls = <<>>
  /\ currentAbortController = 0
  /\ heldController = 0
  /\ fallbackCalls = 0

InitNoApp == InitDb /\ InitNoSlug /\ InitPage /\ InitHook

InitNoServer == InitNoBuilder /\ InitNoPost /\ InitNoApp

\* No client loop runs.
InitNoClient ==
  /\ variant = "abortable"
  /\ sent = <<>>
  /\ ending = "none"
  /\ net = <<>>
  /\ netPos = 0
  /\ fullResponse = <<>>
  /\ chunkCalls = <<>>
  /\ kpc = "idle"
  /\ result = <<>>
  /\ rejectMsg = ""
  /\ clientLocked = FALSE
  /\ timer = "none"
  /\ signal = "live"
  /\ releaseLog = <<>>
  /\ streamingMessage = <<>>
  /\ aiMessages = <<>>

\* ------------------------------------------- generateStreamingResponse
\* `await fetch(...)` answers with a success status and a body.
GenStartOk ==
  /\ apc = "fetch"
  /\ apc' = "read"
  /\ readerLocked' = TRUE
  /\ UNCHANGED <<wire, upstream, upPos, decPending, buffer, lines, lineStop,
                 genErr, yielded, reads, termParsed, heldBack>>

\* `await fetch(...)` answers with a non-success status, or without a body:
\* the generator throws before it has a reader.
GenStartFail ==
  /\ apc = "fetch"
  /\ apc' = "threw"
  /\ \E m \in {"mApi", "mNoReader"} : genErr' = [isError |-> TRUE, message |-> m]
  /\ UNCHANGED <<wire, upstream, upPos, decPending, buffer, lines, lineStop,
                 readerLocked, yielded, reads, termParsed, heldBack>>

\* The generator goes on after the for loop stopped with result r.
GenContinue(r) ==
  /\ termParsed' = (termParsed \/ r.term)
  /\ CASE r.out = "yield" ->
            /\ apc' = "yield"
            /\ yielded' = Append(yielded, r.frag)
            /\ lines' = r.rest
            /\ lineStop' = r.stop
            /\ UNCHANGED readerLocked
       [] r.out = "return" ->
            /\ apc' = "returned"
            /\ readerLocked' = FALSE
            /\ lines' = <<>>
            /\ lineStop' = FALSE
            /\ UNCHANGED yielded
       [] r.out = "exhausted" ->
            /\ apc' = "read"
            /\ lines' = <<>>
            /\ lineStop' = FALSE
            /\ UNCHANGED <<yielded, readerLocked>>

\* `await reader.read()` settles with the next k bytes.
GenReadChunk ==
  /\ apc = "read"
  /\ \E k \in 1..(Len(upstream) - upPos) :
       LET d == DecodeStream(decPending, SubSeq(upstream, upPos + 1, upPos + k))
           segs == Split(buffer \o d.text)
       IN  /\ upPos' = upPos + k
           /\ decPending' = d.pending
           /\ buffer' = PopBuffer(segs)
           /\ heldBack' = (heldBack \/ PopBuffer(segs) # <<>> \/ d.pending)
           /\ GenContinue(RunLines(wire, PopLines(segs)))
  /\ reads' = reads + 1
  /\ UNCHANGED <<wire, upstream, genErr>>

\* Variant of GenReadDone: the rest of the buffer is parsed as a last line
\* before the generator returns.
GenReadDoneFlush ==
  /\ apc = "read"
  /\ upPos = Len(upstream)
  /\ LET r == RunLines(wire, <<buffer>>) IN
       /\ yielded' = IF r.out = "yield" THEN Append(yielded, r.frag)
                     ELSE yielded
       /\ termParsed' = (termParsed \/ r.term)
  /\ apc' = "returned"
  /\ readerLocked' = FALSE
  /\ reads' = reads + 1
  /\ UNCHANGED <<wire, upstream, upPos, decPending, buffer, lines, lineStop,
                 genErr, heldBack>>

\* `await reader.read()` settles with done: break, then finally.
GenReadDone ==
  /\ apc = "read"
  /\ upPos = Len(upstream)
  /\ apc' = "returned"
  /\ readerLocked' = FALSE
  /\ reads' = reads + 1
  /\ UNCHANGED <<wire, upstream, upPos, decPending, buffer, lines, lineStop,
                 genErr, yielded, termParsed, heldBack>>

\* `await reader.read()` rejects: the finally block runs and the error
\* leaves the generator.
GenReadError ==
  /\ apc = "read"
  /\ apc' = "threw"
  /\ readerLocked' = FALSE
  /\ genErr' = [isError |-> TRUE, message |-> "mRead"]
  /\ reads' = reads + 1
  /\ UNCHANGED <<wire, upstream, upPos, decPending, buffer, lines, lineStop,
                 yielded, termParsed, heldBack>>

\* The consumer asked for the next value: the generator goes on after the
\* yield, first with the terminal test of the line that yielded.
GenResume ==
  /\ apc = "resume"
  /\ IF lineStop
       THEN GenContinue([out |-> "return", frag |-> <<>>, rest |-> <<>>,
                         stop |-> FALSE, term |-> TRUE])
       ELSE GenContinue(RunLines(wire, lines))
  /\ UNCHANGED <<wire, upstream, upPos, decPending, buffer, genErr, reads,
                 heldBack>>

\* Variant of GenAbandon: the generator is dropped without its finally block.
GenAbandonNoRelease ==
  /\ apc' = "returned"
  /\ UNCHANGED <<wire, upstream, upPos, decPending, buffer, lines, lineStop,
                 readerLocked, genErr, yielded, reads, termParsed, heldBack>>

\* The consumer leaves its for await loop while the generator is suspended
\* at a yield: generator.return() runs the finally block.
GenAbandon ==
  /\ apc' = "returned"
  /\ readerLocked' = FALSE
  /\ UNCHANGED <<wire, upstream, upPos, decPending, buffer, lines, lineStop,
                 genErr, yielded, reads, termParsed, heldBack>>

\* A consumer that only collects: `for await (const chunk of generator)`.
Consume ==
  /\ apc = "yield"
  /\ apc' = "resume"
  /\ UNCHANGED <<wire, upstream, upPos, decPending, buffer, lines, lineStop,
                 readerLocked, genErr, yielded, reads, termParsed, heldBack>>

\* --------------------------------------------- specification: one adapter
InitAdapter ==
  /\ mode = "adapter"
  /\ InitGen(Streams)
  /\ InitController("idle")
  /\ InitNoClient
  /\ InitNoServer

NextAdapter ==
  \/ (GenStartOk /\ UNCHANGED <<mode, serverVars, clientVars, relayVars>>)
  \/ (GenReadChunk /\ UNCHANGED <<mode, serverVars, clientVars, relayVars>>)
  \/ (GenReadDone /\ UNCHANGED <<mode, serverVars, clientVars, relayVars>>)
  \/ (GenResume /\ UNCHANGED <<mode, serverVars, clientVars, relayVars>>)
  \/ (Consume /\ UNCHANGED <<mode, serverVars, clientVars, relayVars>>)

SpecAdapter == InitAdapter /\ [][NextAdapter]_vars

\* ------------------------------------------------------------------ claims
\* The fragments of the whole byte stream delivered by one read.
SingleChunkFragments(w, bytes) ==
  Drain(w, PopLines(Split(DecodeStream(FALSE, bytes).text)))

\* C1: whatever the split of the upstream bytes into read chunks, an adapter
\* yields a prefix of the fragments it yields when the same bytes arrive as
\* one chunk, and exactly those fragments once it has returned.
C1_ChunkIndependence ==
  /\ IsPrefix(yielded, SingleChunkFragments(wire, upstream))
  /\ apc = "returned" => yielded = SingleChunkFragments(wire, upstream)

\* Witness of C1: an adapter returned after more than one read, a chunk ended
\* inside a record, and two fragments were yielded.
C1_Witness ==
  /\ apc = "returned"
  /\ heldBack
  /\ reads >= 3
  /\ Len(yielded) = 2

\* C2: once the terminal test of an adapter has been true, no fragment is
\* yielded and no upstream read is made any more, whatever follows the
\* terminal record in the same chunk or in later chunks.  (The text of an
\* Ollama record with done = true is yielded before the test on done.)
C2_NothingAfterTerminal ==
  [][termParsed => (yielded' = yielded /\ reads' = reads /\ upPos' = upPos)]_vars

\* Witness of C2: an adapter returned on its terminal signal while complete
\* records and bytes not yet read follow it.
C2_Witness ==
  /\ termParsed
  /\ apc = "returned"
  /\ upPos < Len(upstream)
  /\ Len(SingleChunkFragments(wire, upstream)) = Len(yielded)
  /\ \E i \in 1..Len(upstream) : i > upPos /\ upstream[i] = NL


\* ------------------------------------------------------- relay controller
\* ReadableStreamDefaultController: enqueue and close throw unless the
\* stream is readable; desiredSize is null only for an errored stream and 0
\* for a closed one.
CanCloseOrEnqueue(ch) == ch = "readable"
DesiredSizeIsNull(ch) == ch = "errored"

\* Variant of SendChunk: the event is put before the ones already written.
SendChunkReordered(ch, out, chunk) ==
  IF ch = "readable"
    THEN [out |-> <<ContentEvent(chunk)>> \o out, broke |-> FALSE]
    ELSE [out |-> out, broke |-> TRUE]

\* try { controller.enqueue(content event) } catch { break }
SendChunk(ch, out, chunk) ==
  IF CanCloseOrEnqueue(ch)
    THEN [out |-> Append(out, ContentEvent(chunk)), broke |-> FALSE]
    ELSE [out |-> out, broke |-> TRUE]

\* Variant of SendDone: the marker is written and the channel left open.
SendDoneNoClose(ch, out) ==
  IF ch = "readable"
    THEN [out |-> Append(out, DoneEvent), chan |-> ch, closed |-> 0,
          failed |-> 0, threw |-> FALSE]
    ELSE [out |-> out, chan |-> ch, closed |-> 0, failed |-> 1,
          threw |-> FALSE]

\* try { controller.enqueue('data: [DONE]'); controller.close() } catch {}
SendDone(ch, out) ==
  IF CanCloseOrEnqueue(ch)
    THEN [out |-> Append(out, DoneEvent), chan |-> "closed", closed |-> 1,
          failed |-> 0, threw |-> FALSE]
    ELSE [out |-> out, chan |-> ch, closed |-> 0, failed |-> 1,
          threw |-> FALSE]

\* Variant of SendError: the completion block runs after the catch block.
SendErrorThenDone(ch, out, e) ==
  IF ch = "readable"
    THEN [out |-> out \o <<ErrorEvent(ErrorMessageOf(e)), DoneEvent>>,
          chan |-> "closed", closed |-> 1, failed |-> 0, threw |-> FALSE]
    ELSE [out |-> out, chan |-> ch, closed |-> 0, failed |-> 1,
          threw |-> FALSE]

\* Variant of SendError: enqueue and close are not guarded by try/catch.
SendErrorUncaught(ch, out, e) ==
  IF ch = "readable"
    THEN [out |-> Append(out, ErrorEvent(ErrorMessageOf(e))), chan |-> "closed",
          closed |-> 1, failed |-> 0, threw |-> FALSE]
    ELSE [out |-> out, chan |-> ch, closed |-> 0, failed |-> 1,
          threw |-> TRUE]

\* catch (error) { try { controller.enqueue(error event);
\*                       controller.close() } catch {} }
SendError(ch, out, e) ==
  IF CanCloseOrEnqueue(ch)
    THEN [out |-> Append(out, ErrorEvent(ErrorMessageOf(e))), chan |-> "closed",
          closed |-> 1, failed |-> 0, threw |-> FALSE]
    ELSE [out |-> out, chan |-> ch, closed |-> 0, failed |-> 1,
          threw |-> FALSE]

\* start(controller) settles after its last block left result d.
CtlSettle(d, failedBefore) ==
  /\ outbound' = d.out
  /\ chan' = d.chan
  /\ closes' = closes + d.closed
  /\ failedOps' = failedOps + failedBefore + d.failed
  /\ escaped' = (escaped \/ d.threw)
  /\ cpc' = "done"

\* reader.read() calls started after the client left: one for every move of
\* the generator to its read position.
CountNewRead ==
  newReads' = IF clientGone /\ apc' = "read" THEN newReads + 1 ELSE newReads

\* A step of the generator while the controller awaits its next value.
RelayGen(step) ==
  /\ cpc = "loop"
  /\ step
  /\ CountNewRead
  /\ UNCHANGED <<mode, serverVars, clientVars, chan, clientGone, outbound, cpc,
                 closes, failedOps, escaped, outAtGone>>

\* The body of `for await (const chunk of responseGenerator)`.
CtlFragment ==
  /\ cpc = "loop"
  /\ apc = "yield"
  /\ LET chunk == yielded[Len(yielded)] IN
     IF DesiredSizeIsNull(chan)
       THEN \* return
            /\ GenAbandon
            /\ cpc' = "done"
            /\ UNCHANGED <<chan, outbound, closes, failedOps, escaped>>
       ELSE LET r == SendChunk(chan, outbound, chunk) IN
            IF ~r.broke
              THEN /\ outbound' = r.out
                   /\ apc' = "resume"
                   /\ UNCHANGED <<wire, upstream, upPos, decPending, buffer,
                                  lines, lineStop, readerLocked, genErr,
                                  yielded, reads, termParsed, heldBack>>
                   /\ UNCHANGED <<chan, cpc, closes, failedOps, escaped>>
              ELSE \* break, then the completion block
                   /\ GenAbandon
                   /\ CtlSettle(SendDone(chan, r.out), 1)
  /\ UNCHANGED <<mode, serverVars, clientVars, clientGone, outAtGone, newReads>>

\* The generator returned: the loop ends and the completion block runs.
CtlLoopEnd ==
  /\ cpc = "loop"
  /\ apc = "returned"
  /\ CtlSettle(SendDone(chan, outbound), 0)
  /\ UNCHANGED <<mode, serverVars, clientVars, adapterVars, clientGone,
                 outAtGone, newReads>>

\* Variant of CtlCatch: the error is logged and the channel closed without
\* an error event.
CtlCatchSilent ==
  /\ cpc = "loop"
  /\ apc = "threw"
  /\ CtlSettle([out |-> outbound,
                chan |-> IF chan = "readable" THEN "closed" ELSE chan,
                closed |-> IF chan = "readable" THEN 1 ELSE 0,
                failed |-> IF chan = "readable" THEN 0 ELSE 1,
                threw |-> FALSE], 0)
  /\ UNCHANGED <<mode, serverVars, clientVars, adapterVars, clientGone,
                 outAtGone, newReads>>

\* The generator threw: the catch block runs.
CtlCatch ==
  /\ cpc = "loop"
  /\ apc = "threw"
  /\ CtlSettle(SendError(chan, outbound, genErr), 0)
  /\ UNCHANGED <<mode, serverVars, clientVars, adapterVars, clientGone,
                 outAtGone, newReads>>

\* The client closes the outbound channel while the session runs.  The
\* runtime cancels the stream (closed) or fails it (errored).  The event is
\* delivered by the event loop, that is while the generator awaits the
\* network (fetch or reader.read()): from the settling of a read to the next
\* read the generator and the loop body run as one chain of microtasks.
ClientDisconnect ==
  /\ cpc = "loop"
  /\ apc \in {"fetch", "read"}
  /\ ~clientGone
  /\ chan = "readable"
  /\ chan' \in {"closed", "errored"}
  /\ clientGone' = TRUE
  /\ outAtGone' = Len(outbound)
  /\ UNCHANGED <<mode, serverVars, clientVars, adapterVars, outbound, cpc,
                 closes, failedOps, escaped, newReads>>

\* ------------------------------------------------ specification: the relay
RelayRecords == 2

RelayTemplates ==
  { <<>>,
    <<"D", "{", "a", "}">>,
    <<"D", "{", "h", "l", "}">>,
    <<"D", "X">>,
    <<"{", "a", "}">>,
    <<"{", "h", "l", "S", "}">> }

RECURSIVE RelayStreams(_)
RelayStreams(n) ==
  IF n = 0 THEN {<<>>}
  ELSE LET shorter == RelayStreams(n - 1)
       IN  shorter \cup {t \o <<NL>> \o s : t \in RelayTemplates, s \in shorter}

InitRelay ==
  /\ mode = "relay"
  /\ InitGen(RelayStreams(RelayRecords))
  /\ InitController("loop")
  /\ InitNoClient
  /\ InitNoServer

NextRelay ==
  \/ RelayGen(GenStartOk)
  \/ RelayGen(GenStartFail)
  \/ RelayGen(GenReadChunk)
  \/ RelayGen(GenReadDone)
  \/ RelayGen(GenReadError)
  \/ RelayGen(GenResume)
  \/ CtlFragment
  \/ CtlLoopEnd
  \/ CtlCatch
  \/ ClientDisconnect

SpecRelay == InitRelay /\ [][NextRelay]_vars


\* --------------------------------------------------- the session's state
\* route.ts keeps no state field: the state of a relay session is read off
\* the position pc of start(controller) and the events out it has written.
SessionStateOf(pc, out) ==
  IF pc = "loop"
    THEN IF EventsOfKind(out, "content") = {} THEN "pending"
         ELSE "streaming"
    ELSE IF EventsOfKind(out, "done") # {} THEN "completed"
         ELSE IF EventsOfKind(out, "error") # {} THEN "failed"
         ELSE "cancelled"

SessionState == SessionStateOf(cpc, outbound)

\* The terminal states a session has entered.
TerminalStatesOf(pc, out, gone) ==
  (IF EventsOfKind(out, "done") # {} THEN {"completed"} ELSE {})
    \cup (IF EventsOfKind(out, "error") # {} THEN {"failed"} ELSE {})
    \cup (IF pc = "done" /\ gone THEN {"cancelled"} ELSE {})

Rank(st) == CASE st = "pending" -> 0 [] st = "streaming" -> 1 [] OTHER -> 2

Front(q) == SubSeq(q, 1, Len(q) - 1)

\* C3: the content payloads written on the outbound channel are, in order, a
\* prefix of the fragments the adapter yielded; while the client is connected
\* every fragment the controller has received is written exactly once, so the
\* payloads are all fragments but the one being handed over.
C3_OrderedDelivery ==
  /\ IsPrefix(ContentPayloads(outbound), yielded)
  /\ ~clientGone =>
       ContentPayloads(outbound) = (IF apc = "yield" THEN Front(yielded) ELSE yielded)

\* Witness of C3: two different fragments were forwarded to a connected client.
C3_Witness ==
  /\ ~clientGone
  /\ cpc = "loop"
  /\ ContentPayloads(outbound) = << <<"a">>, <<"e">> >>

\* C4: when the adapter returns while the client is connected, the outbound
\* channel carries one content event per fragment, then one [DONE] marker and
\* nothing else, no error event, and the channel was closed by one close();
\* a [DONE] marker is never followed by another event.
C4_CleanCompletion ==
  /\ (cpc = "done" /\ ~clientGone /\ apc = "returned") =>
       /\ Len(outbound) = Len(yielded) + 1
       /\ ContentPayloads(outbound) = yielded
       /\ EventsOfKind(outbound, "done") = {Len(outbound)}
       /\ EventsOfKind(outbound, "error") = {}
       /\ closes = 1
       /\ chan = "closed"
  /\ \A i \in EventsOfKind(outbound, "done") :
       i = Len(outbound) /\ cpc = "done" /\ closes = 1

\* Witness of C4: a session completed with two fragments delivered.
C4_Witness ==
  /\ cpc = "done"
  /\ ~clientGone
  /\ apc = "returned"
  /\ Len(yielded) = 2

\* What C5 says of a session whose adapter threw.
ErrorReported ==
  /\ Len(outbound) = Len(yielded) + 1
  /\ ContentPayloads(outbound) = yielded
  /\ EventsOfKind(outbound, "error") = {Len(outbound)}
  /\ EventRead(outbound[Len(outbound)]).error = genErr.message
  /\ EventsOfKind(outbound, "done") = {}
  /\ closes = 1
  /\ chan = "closed"

\* C5 as stated: whenever the adapter throws after k fragments, the outbound
\* channel carries the k content events, one error event with the adapter's
\* message, and is closed, without a [DONE] marker.
C5_Original == (cpc = "done" /\ apc = "threw") => ErrorReported

\* C5 as amended: the same, for an adapter that throws while the client is
\* still connected.
C5_ErrorWhileConnected ==
  (cpc = "done" /\ apc = "threw" /\ ~clientGone) => ErrorReported

\* Witness of C5: the adapter failed in mid-stream, after a fragment, with the
\* client connected.
C5_Witness ==
  /\ cpc = "done"
  /\ apc = "threw"
  /\ ~clientGone
  /\ Len(yielded) >= 1
  /\ genErr.message = "mRead"

\* The terminal states of a session exclude one another, are entered only
\* when start(controller) settles, and their event is the last one written.
TerminalExclusive(pc, out, gone) ==
  LET ts == TerminalStatesOf(pc, out, gone) IN
  /\ Cardinality(ts) <= 1
  /\ ts # {} => (pc = "done" /\ SessionStateOf(pc, out) \in ts)
  /\ pc = "done" => ts # {}
  /\ \A i \in EventsOfKind(out, "done") \cup EventsOfKind(out, "error") :
       i = Len(out)

\* C6: a session moves forward only, from pending to streaming to a terminal
\* state; it enters at most one terminal state, and a terminal state is never
\* left.  (A session without a fragment goes from pending to its terminal
\* state.)
C6_ForwardOnly ==
  [][LET before == SessionStateOf(cpc, outbound)
         after == SessionStateOf(cpc', outbound')
     IN  /\ Rank(after) >= Rank(before)
         /\ Rank(before) = 2 => (after = before /\ outbound' = outbound)
         /\ TerminalExclusive(cpc', outbound', clientGone')]_vars

\* Witness of C6: a session that streamed two fragments and then failed.
C6_Witness ==
  /\ SessionState = "failed"
  /\ Cardinality(EventsOfKind(outbound, "content")) = 2

\* C7: no exception leaves start(controller), whatever the interleaving of
\* fragments, end, error and client disconnect, and close() completes at most
\* once in a session.
C7_IdempotentClose == ~escaped /\ closes <= 1

\* Witness of C7: the controller wrote to the channel after the client had
\* closed it: the content event and the [DONE] marker both failed.
C7_Witness ==
  /\ cpc = "done"
  /\ chan = "closed"
  /\ clientGone
  /\ failedOps = 2

\* C8 as stated: after the client left, at most one more upstream read is
\* started and no event is written.
C8_Original ==
  clientGone => (newReads <= 1 /\ Len(outbound) = outAtGone)

\* C9: after the client closed the channel no event is written, in
\* particular no error event, no exception leaves the controller, and the
\* reader lock of the adapter is released when the controller settles.
C9_DisconnectIsNoFailure ==
  /\ clientGone =>
       (Len(outbound) = outAtGone /\ EventsOfKind(outbound, "error") = {})
  /\ ~escaped
  /\ (clientGone /\ cpc = "done") => ~readerLocked

\* Witness of C9: the client left, the adapter then failed on a read, and the
\* controller settled.
C9_Witness ==
  /\ clientGone
  /\ cpc = "done"
  /\ apc = "threw"
  /\ reads >= 2

\* ---------------------------------------------------- client consumer loop
\* decoder.decode(value) without the stream option: a lead byte at the end of
\* the chunk is flushed as U+FFFD.
DecodeChunk(bytes) ==
  LET d == DecodeFrom(FALSE, bytes)
  IN  d.text \o (IF d.pending THEN <<"?">> ELSE <<>>)

Variants == {"abortable", "plain", "hybrid"}

\* The catch block around JSON.parse: the abortable loop rethrows what is not
\* a SyntaxError, the two others skip the line whatever was thrown.
RethrowsErrorEvent(v) == v = "abortable"

\* `for (const line of lines)` of the client loop over the segments of one
\* chunk, from the accumulated text full and the calls made so far.
\*   out   "next" (read again) | "return" (saw [DONE]) | "throw"
RECURSIVE ClientRunLines(_, _, _, _)
ClientRunLines(v, ls, full, calls) ==
  IF ls = <<>>
    THEN [out |-> "next", full |-> full, calls |-> calls, err |-> ""]
    ELSE LET line == Head(ls) IN
         IF Trim(line) = <<>> THEN ClientRunLines(v, Tail(ls), full, calls)
         ELSE IF line = <<"D", "X">>
           THEN [out |-> "return", full |-> full, calls |-> calls, err |-> ""]
         ELSE IF ~StartsWithData(line)
           THEN ClientRunLines(v, Tail(ls), full, calls)
         ELSE LET data == JSONparse(Slice6(line)) IN
              IF ~data.ok THEN ClientRunLines(v, Tail(ls), full, calls)
              ELSE IF data.error # ""
                THEN IF RethrowsErrorEvent(v)
                       THEN [out |-> "throw", full |-> full, calls |-> calls,
                             err |-> data.error]
                       ELSE ClientRunLines(v, Tail(ls), full, calls)
              ELSE IF data.text # <<>>
                THEN ClientRunLines(v, Tail(ls), full \o data.text,
                                    Append(calls, data.text))
              ELSE ClientRunLines(v, Tail(ls), full, calls)

\* The onStreamChunk callback of the page, once per new fragment:
\* setStreamingMessage((prev) => prev + chunk).
PageOnChunks(prev, chunks) == prev \o Flatten(chunks)

\* generateAIDebateResponse after `await generateAIResponse(...)`: a resolved
\* response is appended as an AI message; a rejection is logged.
PageAfterAwait(msgs, resolved, response) ==
  IF resolved THEN Append(msgs, response) ELSE msgs

\* The finally block of generateAIDebateResponse: setStreamingMessage('').
PageFinally == <<>>

\* reader.releaseLock(): a reader that was already released ignores the call;
\* a reader with a read request pending releases (the request rejects) or, in
\* runtimes that follow the earlier Streams text, raises a TypeError and keeps
\* the lock.
ReleaseLock(locked, pending) ==
  IF ~locked THEN {"noop"}
  ELSE IF pending THEN {"released", "raised"}
  ELSE {"released"}

\* clearTimeout(timeoutId)
ClearTimeout(t) == IF t = "armed" THEN "cleared" ELSE t

FinallyNoRelease ==
  /\ UNCHANGED <<clientLocked, releaseLog>>

\* The finally of the read loop: reader.releaseLock(), no read pending.
FinallyRelease ==
  \E o \in ReleaseLock(clientLocked, FALSE) :
    /\ releaseLog' = Append(releaseLog, o)
    /\ clientLocked' = (clientLocked /\ o = "raised")

\* `await reader.read()` of the client settles with the next k bytes.
ClientReadChunk ==
  /\ kpc = "read"
  /\ signal = "live"
  /\ clientLocked
  /\ \E k \in 1..(Len(net) - netPos) :
       LET chunk == DecodeChunk(SubSeq(net, netPos + 1, netPos + k))
           r == ClientRunLines(variant, Split(chunk), fullResponse, chunkCalls)
           shown == PageOnChunks(streamingMessage,
                      SubSeq(r.calls, Len(chunkCalls) + 1, Len(r.calls)))
       IN  /\ netPos' = netPos + k
           /\ fullResponse' = r.full
           /\ chunkCalls' = r.calls
           /\ CASE r.out = "next" ->
                     /\ kpc' = "read"
                     /\ streamingMessage' = shown
                     /\ UNCHANGED <<result, rejectMsg, clientLocked, timer,
                                    releaseLog, aiMessages>>
                [] r.out = "return" ->
                     /\ kpc' = "resolved"
                     /\ result' = r.full
                     /\ timer' = ClearTimeout(timer)
                     /\ FinallyRelease
                     /\ aiMessages' = PageAfterAwait(aiMessages, TRUE, r.full)
                     /\ streamingMessage' = PageFinally
                     /\ UNCHANGED rejectMsg
                [] r.out = "throw" ->
                     /\ kpc' = "rejected"
                     /\ rejectMsg' = r.err
                     /\ timer' = ClearTimeout(timer)
                     /\ FinallyRelease
                     /\ aiMessages' = PageAfterAwait(aiMessages, FALSE, <<>>)
                     /\ streamingMessage' = PageFinally
                     /\ UNCHANGED result
  /\ UNCHANGED <<mode, serverVars, adapterVars, relayVars, variant, sent,
                 ending, net, signal>>

\* `await reader.read()` of the client settles with done: clearTimeout, break,
\* finally, `return fullResponse`.
ClientReadDone ==
  /\ kpc = "read"
  /\ signal = "live"
  /\ clientLocked
  /\ netPos = Len(net)
  /\ kpc' = "resolved"
  /\ result' = fullResponse
  /\ timer' = ClearTimeout(timer)
  /\ FinallyRelease
  /\ aiMessages' = PageAfterAwait(aiMessages, TRUE, fullResponse)
  /\ streamingMessage' = PageFinally
  /\ UNCHANGED <<mode, serverVars, adapterVars, relayVars, variant, sent,
                 ending, net, netPos, fullResponse, chunkCalls, rejectMsg,
                 signal>>

\* What makes a pending reader.read() reject: the connection fails, or the
\* request was aborted or the reader released under it.
ReadFailures(v) ==
  {"mNetwork"} \cup (IF v = "abortable" THEN {"mAbort"} ELSE {})

\* The pending reader.read() rejects with m: the inner finally releases the
\* reader (the timer is not cleared), the outer catch rethrows, the page
\* logs the error and clears the streamed text.
ReadRejects(m) ==
  /\ kpc = "read"
  /\ m \in ReadFailures(variant)
  /\ rejectMsg' = m
  /\ kpc' = "rejected"
  /\ FinallyRelease
  /\ aiMessages' = PageAfterAwait(aiMessages, FALSE, <<>>)
  /\ streamingMessage' = PageFinally
  /\ UNCHANGED <<mode, serverVars, adapterVars, relayVars, variant, sent,
                 ending, net, netPos, fullResponse, chunkCalls, result,
                 timer, signal>>

\* The connection fails under a pending read.
ClientReadFail ==
  /\ signal = "live"
  /\ clientLocked
  /\ ReadRejects("mNetwork")

\* The read of an aborted request, or of a released reader, rejects.
ClientReadAborted ==
  /\ signal = "aborted" \/ ~clientLocked
  /\ ReadRejects("mAbort")

\* cleanup(): currentAbortController.abort() while the request is running.
ClientStop ==
  /\ kpc = "read"
  /\ variant = "abortable"
  /\ signal = "live"
  /\ clientLocked
  /\ signal' = "aborted"
  /\ UNCHANGED <<mode, serverVars, adapterVars, relayVars, variant, sent,
                 ending, net, netPos, fullResponse, chunkCalls, kpc, result,
                 rejectMsg, clientLocked, timer, releaseLog,
                 streamingMessage, aiMessages>>

TimerFiresNoAbort ==
  /\ timer = "armed"
  /\ timer' = "fired"
  /\ \E o \in ReleaseLock(clientLocked, kpc = "read") :
       /\ releaseLog' = Append(releaseLog, o)
       /\ clientLocked' = (clientLocked /\ o = "raised")
  /\ UNCHANGED <<mode, serverVars, adapterVars, relayVars, variant, sent,
                 ending, net, netPos, fullResponse, chunkCalls, kpc, result,
                 rejectMsg, signal, streamingMessage, aiMessages>>

\* The callback of setTimeout(..., 60000): abortController.abort();
\* reader.releaseLock(). The timer is armed until a clearTimeout, so the
\* callback also runs after a read exception has ended the loop.
TimerFires ==
  /\ timer = "armed"
  /\ timer' = "fired"
  /\ signal' = "aborted"
  /\ \E o \in ReleaseLock(clientLocked, kpc = "read") :
       /\ releaseLog' = Append(releaseLog, o)
       /\ clientLocked' = (clientLocked /\ o = "raised")
  /\ UNCHANGED <<mode, serverVars, adapterVars, relayVars, variant, sent,
                 ending, net, netPos, fullResponse, chunkCalls, kpc, result,
                 rejectMsg, streamingMessage, aiMessages>>

\* ----------------------------------------- specification: the client loop
MaxFragments == 2

RECURSIVE FragmentSeqs(_)
FragmentSeqs(n) ==
  IF n = 0 THEN {<<>>}
  ELSE LET shorter == FragmentSeqs(n - 1)
       IN  shorter \cup {<<f>> \o q : f \in {<<"a">>, <<"e">>}, q \in shorter}

RECURSIVE ContentEvents(_)
ContentEvents(fs) ==
  IF fs = <<>> THEN <<>> ELSE ContentEvent(Head(fs)) \o ContentEvents(Tail(fs))

\* The message of the error event the relay controller writes last: the
\* adapter threw on the HTTP status ("apiError") or on a later read ("error").
EndingMessage(e) ==
  CASE e = "apiError" -> "mApi"
    [] e = "error" -> "mRead"
    [] OTHER -> ""

\* The bytes the relay controller writes for fragments fs and last event e.
ResponseBody(fs, e) ==
  ContentEvents(fs) \o
    (CASE e = "done" -> DoneEvent
       [] e \in {"error", "apiError"} -> ErrorEvent(EndingMessage(e))
       [] e = "none" -> <<>>)

\* An event line whose payload JSON.parse rejects, with its blank line.
MalformedEvent == <<"D", "{", "a", NL, NL>>

\* The bodies the client loop is run on: what the relay writes, alone or after
\* a line that does not parse.
ClientBodies(fs, e) ==
  {ResponseBody(fs, e), MalformedEvent \o ResponseBody(fs, e)}

\* The last events the relay can write after fragments fs: the adapter throws
\* on the HTTP status before it yields anything.
Endings(fs) ==
  {"done", "error", "none"} \cup (IF fs = <<>> THEN {"apiError"} ELSE {})

InitNoGen ==
  /\ wire = "openai"
  /\ upstream = <<>>
  /\ upPos = 0
  /\ decPending = FALSE
  /\ buffer = <<>>
  /\ lines = <<>>
  /\ lineStop = FALSE
  /\ apc = "idle"
  /\ readerLocked = FALSE
  /\ genErr = NoError
  /\ yielded = <<>>
  /\ reads = 0
  /\ termParsed = FALSE
  /\ heldBack = FALSE

InitClient ==
  /\ mode = "client"
  /\ InitNoGen
  /\ InitController("idle")
  /\ InitNoServer
  /\ variant \in Variants
  /\ sent \in FragmentSeqs(MaxFragments)
  /\ ending \in Endings(sent)
  /\ net \in ClientBodies(sent, ending)
  /\ netPos = 0
  /\ fullResponse = <<>>
  /\ chunkCalls = <<>>
  /\ kpc = "read"
  /\ result = <<>>
  /\ rejectMsg = ""
  /\ clientLocked = TRUE
  /\ timer = (IF variant = "abortable" THEN "armed" ELSE "none")
  /\ signal = "live"
  /\ releaseLog = <<>>
  /\ streamingMessage = <<>>
  /\ aiMessages = <<>>

NextClient ==
  \/ ClientReadChunk
  \/ ClientReadDone
  \/ ClientReadFail
  \/ ClientReadAborted
  \/ ClientStop
  \/ TimerFires

SpecClient == InitClient /\ [][NextClient]_vars

\* The client loop with the runtime's scheduling: a read of an aborted
\* request, or of a released reader, is rejected by the runtime and the
\* rejection is delivered.
SpecClientLive == SpecClient /\ WF_vars(ClientReadAborted)

\* C24: when the 60-second timer fires while the loop still waits for a read,
\* the request is aborted through the abort signal, the one cleanup() uses,
\* and the loop then ends: generateAIResponse rejects with the abort.
C24_TimeoutTerminates ==
  (timer = "fired" /\ kpc = "read")
    ~> (kpc = "rejected" /\ signal = "aborted" /\ rejectMsg = "mAbort")

\* C33: once generateAIResponse of the abortable loop has settled, by the end
\* of the stream, '[DONE]', an error event or an exception of reader.read,
\* its 60-second timer is no longer armed, so it cannot fire afterwards.
C33_Original ==
  (variant = "abortable" /\ kpc \in {"resolved", "rejected"})
    => timer # "armed"

\* Witness of C24: the timer fired under a pending read before the response
\* was read to its end, and generateAIResponse rejected with the abort.
C24_Witness ==
  /\ timer = "fired"
  /\ signal = "aborted"
  /\ kpc = "rejected"
  /\ rejectMsg = "mAbort"
  /\ Len(releaseLog) = 2
  /\ releaseLog[1] # "noop"
  /\ netPos < Len(net)

\* ------------------------- specification: the read handles of both sides
\* One client loop, or one adapter generator with a consumer that may leave
\* at any yield.
HandleRecords == 1

HandleStreams == {s \o t : s \in RecordStreams(HandleRecords), t \in Tails}

InitHandles ==
  \/ InitClient
  \/ /\ mode = "adapter"
     /\ InitGen(HandleStreams)
     /\ InitController("idle")
     /\ InitNoClient
     /\ InitNoServer

NextHandles ==
  \/ NextClient
  \/ (GenStartOk /\ UNCHANGED <<mode, serverVars, clientVars, relayVars>>)
  \/ (GenStartFail /\ UNCHANGED <<mode, serverVars, clientVars, relayVars>>)
  \/ (GenReadChunk /\ UNCHANGED <<mode, serverVars, clientVars, relayVars>>)
  \/ (GenReadDone /\ UNCHANGED <<mode, serverVars, clientVars, relayVars>>)
  \/ (GenReadError /\ UNCHANGED <<mode, serverVars, clientVars, relayVars>>)
  \/ (GenResume /\ UNCHANGED <<mode, serverVars, clientVars, relayVars>>)
  \/ (Consume /\ UNCHANGED <<mode, serverVars, clientVars, relayVars>>)
  \/ (apc = "yield" /\ GenAbandon
        /\ UNCHANGED <<mode, serverVars, clientVars, relayVars>>)

SpecHandles == InitHandles /\ [][NextHandles]_vars

\* C23: once the client loop has settled, or an adapter generator has
\* returned, thrown or been abandoned, its reader no longer holds the lock of
\* the body; and no releaseLock() call made after the reader was released
\* raises.
C23_ReleasedOnExit ==
  /\ apc \in {"returned", "threw"} => ~readerLocked
  /\ kpc \in {"resolved", "rejected"} => ~clientLocked
  /\ \A i, j \in 1..Len(releaseLog) :
       (i < j /\ releaseLog[i] = "released") => releaseLog[j] # "raised"

\* Witness of C23: the timer released the reader under a pending read, the
\* read rejected, and the finally block released it a second time.
C23_Witness ==
  /\ kpc = "rejected"
  /\ ~clientLocked
  /\ releaseLog = <<"released", "noop">>

\* C10 as stated: for content events followed by the [DONE] marker and any
\* split of the response body into network chunks, the resolved text is the
\* concatenation of the fragments and onStreamChunk was called once per
\* fragment, in order.
C10_Original ==
  (kpc = "resolved" /\ ending = "done") =>
    (result = Flatten(sent) /\ chunkCalls = sent)

\* C11 as stated: in every client loop, once an error event has been received
\* generateAIResponse never resolves normally; it rejects with the message of
\* the event.
C11_Original ==
  (ending \in {"error", "apiError"} /\ kpc \in {"resolved", "rejected"}
     /\ netPos = Len(net)) =>
    (kpc = "rejected" /\ rejectMsg = EndingMessage(ending))

\* C12 as stated: when the provider answers with a non-success status, the
\* client receives no content event, generateAIResponse rejects and the page
\* appends no AI message.
C12_Original ==
  (ending = "apiError" /\ kpc \in {"resolved", "rejected"}) =>
    (chunkCalls = <<>> /\ kpc = "rejected" /\ aiMessages = <<>>)

\* C13 as stated: when a turn is cancelled or fails after fragments were
\* delivered, the text accumulated so far stays available to the page.
C13_Original ==
  (kpc = "rejected" /\ chunkCalls # <<>>) =>
    \/ streamingMessage = Flatten(chunkCalls)
    \/ \E i \in 1..Len(aiMessages) : aiMessages[i] = Flatten(chunkCalls)

\* C25 as stated: the page appends an AI message only when the response
\* carried the terminal marker and the loop received it, and the content of
\* the message is the concatenation of the fragments the server delivered.
C25_Original ==
  aiMessages # <<>> =>
    (ending = "done" /\ aiMessages = <<Flatten(sent)>>)

\* ------------------------------------------------ conversation history
\* A stored message is [id, content, sender, isWhisper, targetAI]; its content
\* is one token, the id of the message.  A prompt entry is [role, content]
\* where content is [label, body, turn, covered]: the text put before the
\* body, the token of the body (0 for none), and, for the system prompt, the
\* turn count and the senders it lists.
Roles == {"defender", "critic"}

WindowSize == 6

\* Variant of LastN: nothing is cut.
LastNAll(s, n) == s
\* messages.slice(-n)
LastN(s, n) == IF Len(s) <= n THEN s ELSE SubSeq(s, Len(s) - n + 1, Len(s))

\* currentRole === 'defender' ? 'River' : 'Sage'
TargetName(currentRole) == IF currentRole = "defender" THEN "River" ELSE "Sage"

\* Variant of SkipsWhisper: the names of the two recipients are exchanged.
SkipsWhisperSwapped(message, currentRole) ==
  message.isWhisper /\ message.targetAI = TargetName(currentRole)
\* Variant of SkipsWhisper: every whisper is skipped.
SkipsWhisperAll(message, currentRole) == message.isWhisper
\* message.isWhisper && message.targetAI !== (...)
SkipsWhisper(message, currentRole) ==
  message.isWhisper /\ message.targetAI # TargetName(currentRole)

Text(label, body) ==
  [label |-> label, body |-> body, turn |-> 0, covered |-> <<>>]

\* Variant of OtherAIName: the two labels are exchanged.
OtherAINameSwapped(sender) ==
  IF sender = "defender" THEN "Sage (Critic): " ELSE "River (Defender): "
\* `${otherAIName}: ` of the other AI's message
OtherAIName(sender) ==
  IF sender = "defender" THEN "River (Defender): " ELSE "Sage (Critic): "

\* The entry pushed for one message that is not skipped.
MapMessage(message, currentRole) ==
  IF message.sender = "user"
    THEN [role |-> "user", content |-> Text("", message.content)]
  ELSE IF message.sender = currentRole
    THEN [role |-> "assistant", content |-> Text("", message.content)]
  ELSE [role |-> "user",
        content |-> Text(OtherAIName(message.sender), message.content)]

\* `for (const message of recentMessages)`
RECURSIVE MapMessages(_, _)
MapMessages(ms, currentRole) ==
  IF ms = <<>> THEN <<>>
  ELSE IF SkipsWhisper(Head(ms), currentRole)
    THEN MapMessages(Tail(ms), currentRole)
  ELSE <<MapMessage(Head(ms), currentRole)>> \o
         MapMessages(Tail(ms), currentRole)

Senders(ms) == [i \in 1..Len(ms) |-> ms[i].sender]

\* contextualPrompt: the system prompt of the role, the turn count and the
\* senders of the recent messages.
SystemEntry(messages, recentMessages, currentRole) ==
  [role |-> "system",
   content |-> [label |-> IF currentRole = "defender"
                            THEN "getDefenderSystemPrompt"
                            ELSE "getCriticSystemPrompt",
                body |-> 0,
                turn |-> (Len(messages) \div 2) + 1,
                covered |-> Senders(recentMessages)]]

TopicEntry == [role |-> "user", content |-> Text("Topic for debate: ", 0)]

\* Variant of buildConversationHistory: the topic is pushed first.
buildTopicFirst(messages, currentRole) ==
  LET recentMessages == LastN(messages, WindowSize)
  IN  <<TopicEntry, SystemEntry(messages, recentMessages, currentRole)>> \o
        MapMessages(recentMessages, currentRole)
buildConversationHistory(messages, currentRole) ==
  LET recentMessages == LastN(messages, WindowSize)
  IN  <<SystemEntry(messages, recentMessages, currentRole), TopicEntry>> \o
        MapMessages(recentMessages, currentRole)

\* Variant of OllamaKeeps: a whisper without a target is kept.
OllamaKeepsUntargeted(msg, currentTurn) ==
  \/ ~msg.isWhisper
  \/ msg.targetAI \in {TargetName(currentTurn), "none"}
\* The filter of handleOllamaRequest.
OllamaKeeps(msg, currentTurn) ==
  ~msg.isWhisper \/ msg.targetAI = TargetName(currentTurn)

\* .filter(...).map(...) of handleOllamaRequest
RECURSIVE OllamaMessages(_, _)
OllamaMessages(ms, currentTurn) ==
  IF ms = <<>> THEN <<>>
  ELSE IF ~OllamaKeeps(Head(ms), currentTurn)
    THEN OllamaMessages(Tail(ms), currentTurn)
  ELSE <<[role |-> IF Head(ms).sender = "user" THEN "user" ELSE "assistant",
          content |-> Text("", Head(ms).content)]>> \o
         OllamaMessages(Tail(ms), currentTurn)

\* fullMessages of handleOllamaRequest
OllamaFullMessages(messages, currentTurn) ==
  <<[role |-> "system",
     content |-> Text(IF currentTurn = "defender"
                        THEN "You are River, the Defender."
                        ELSE "You are Sage, the Critic.", 0)]>> \o
    OllamaMessages(messages, currentTurn)

\* ----------------------------------------- specification: the two builders
MaxHistory == 8

\* The turns alternate, the defender speaks first.
NextSpeaker(ms) ==
  LET ai == {i \in 1..Len(ms) : ms[i].sender # "user"} IN
  IF ai = {} THEN "defender"
  ELSE LET last == CHOOSE i \in ai : \A j \in ai : j <= i
       IN  IF ms[last].sender = "defender" THEN "critic" ELSE "defender"

NewMessage(ms, sender, isWhisper, targetAI) ==
  [id |-> Len(ms) + 1, content |-> Len(ms) + 1, sender |-> sender,
   isWhisper |-> isWhisper, targetAI |-> targetAI]

\* handleSubmit: the moderator's input, a whisper when it starts with
\* @River or @Sage.
HandleSubmit ==
  /\ hpc = "none"
  /\ Len(history) < MaxHistory
  /\ \E t \in {"none", "River", "Sage"} :
       history' = Append(history, NewMessage(history, "user", t # "none", t))
  /\ UNCHANGED <<mode, adapterVars, relayVars, clientVars, postVars, appVars,
                 builtFor, prompt, hpc>>

\* generateAIDebateResponse appends the answer of the AI whose turn it is.
AddAIMessage ==
  /\ hpc = "none"
  /\ Len(history) < MaxHistory
  /\ history' = Append(history,
                  NewMessage(history, NextSpeaker(history), FALSE, "none"))
  /\ UNCHANGED <<mode, adapterVars, relayVars, clientVars, postVars, appVars,
                 builtFor, prompt, hpc>>

\* POST builds the conversation history for the current turn.
BuildServer ==
  /\ hpc = "none"
  /\ \E r \in Roles :
       /\ builtFor' = r
       /\ prompt' = buildConversationHistory(history, r)
  /\ hpc' = "server"
  /\ UNCHANGED <<mode, adapterVars, relayVars, clientVars, postVars, appVars,
                 history>>

\* handleOllamaRequest builds the prompt for the local model.
BuildOllama ==
  /\ hpc = "none"
  /\ \E r \in Roles :
       /\ builtFor' = r
       /\ prompt' = OllamaFullMessages(history, r)
  /\ hpc' = "ollama"
  /\ UNCHANGED <<mode, adapterVars, relayVars, clientVars, postVars, appVars,
                 history>>

InitBuilder ==
  /\ mode = "builder"
  /\ InitNoGen
  /\ InitController("idle")
  /\ InitNoClient
  /\ InitNoBuilder
  /\ InitNoPost
  /\ InitNoApp

NextBuilder ==
  \/ HandleSubmit
  \/ AddAIMessage
  \/ BuildServer
  \/ BuildOllama

SpecBuilder == InitBuilder /\ [][NextBuilder]_vars

\* The stored messages hidden from the role the prompt was built for.
HiddenFrom(r) ==
  {i \in 1..Len(history) :
     history[i].isWhisper /\ history[i].targetAI # TargetName(r)}

Bodies(p) == {p[j].content.body : j \in 1..Len(p)}

\* C14: a whisper addressed to one AI is never the body of an entry of the
\* prompt built for the other role, by the server builder or by the client
\* side Ollama builder.
C14_WhisperConfidential ==
  hpc \in {"server", "ollama"} =>
    \A i \in HiddenFrom(builtFor) : history[i].content \notin Bodies(prompt)

C14_Witness ==
  /\ hpc = "server"
  /\ builtFor = "critic"
  /\ \E i \in HiddenFrom("critic") : i > Len(history) - WindowSize
  /\ \E i \in HiddenFrom("defender") : history[i].content \in Bodies(prompt)

\* The stored messages whispered to the role r.
AddressedTo(r) ==
  {i \in 1..Len(history) :
     history[i].isWhisper /\ history[i].targetAI = TargetName(r)}

\* The positions of the entries made from stored messages.
MessageEntries(p) == 3..Len(p)

\* The stored messages among the WindowSize most recent ones.
InWindow == {i \in 1..Len(history) : i > Len(history) - WindowSize}

\* Message i is an entry of the prompt, after the entries of the older
\* messages and before those of the newer ones.
InPlace(i) ==
  \E j \in MessageEntries(prompt) :
    /\ prompt[j].content.body = history[i].content
    /\ \A k \in MessageEntries(prompt) :
         (k < j) <=> (prompt[k].content.body < history[i].content)

\* C15 as stated: a whisper to the requesting role is in its prompt, at its
\* chronological position, for every history that contains it.
C15_Original ==
  hpc = "server" => \A i \in AddressedTo(builtFor) : InPlace(i)

\* C15, amended: a whisper to the requesting role that is among the
\* WindowSize most recent stored messages is in its prompt, at its
\* chronological position among the included messages.
C15_WhisperInWindow ==
  hpc = "server" =>
    \A i \in AddressedTo(builtFor) \cap InWindow : InPlace(i)

C15_Witness ==
  /\ hpc = "server"
  /\ Len(history) > WindowSize
  /\ \E i \in AddressedTo(builtFor) \cap InWindow :
       /\ InPlace(i)
       /\ \E k \in MessageEntries(prompt) :
            prompt[k].content.body < history[i].content
       /\ \E k \in MessageEntries(prompt) :
            prompt[k].content.body > history[i].content
       /\ \E h \in HiddenFrom(builtFor) \cap InWindow : h < i

\* The bodies of the entries made from stored messages.
MessageBodies(p) == {p[j].content.body : j \in MessageEntries(p)}

VisibleTo(r) == (1..Len(history)) \ HiddenFrom(r)

\* The n most recent elements of a set of positions.
MostRecent(set, n) == {i \in set : Cardinality({k \in set : k > i}) < n}

C18_RoleMapping ==
  hpc = "server" =>
    \A j \in MessageEntries(prompt) :
      \E i \in 1..Len(history) :
        LET m == history[i]
            e == prompt[j]
        IN  /\ e.content.body = m.content
            /\ m.sender = "user" => (e.role = "user" /\ e.content.label = "")
            /\ m.sender = builtFor =>
                 (e.role = "assistant" /\ e.content.label = "")
            /\ (m.sender = "defender" /\ builtFor = "critic") =>
                 (e.role = "user" /\ e.content.label = "River (Defender): ")
            /\ (m.sender = "critic" /\ builtFor = "defender") =>
                 (e.role = "user" /\ e.content.label = "Sage (Critic): ")

C18_Witness ==
  /\ hpc = "server"
  /\ \E j \in MessageEntries(prompt) : prompt[j].role = "assistant"
  /\ \E j \in MessageEntries(prompt) :
       prompt[j].content.label = "River (Defender): "
  /\ \E j \in MessageEntries(prompt) :
       prompt[j].role = "user" /\ prompt[j].content.label = ""

\* C19: the prompt starts with one system entry and one user entry stating
\* the topic; no later entry is a system or topic entry, and the later
\* entries are made from stored messages in their stored order, none twice.
C19_PromptShape ==
  hpc = "server" =>
    /\ Len(prompt) >= 2
    /\ prompt[1].role = "system"
    /\ prompt[2] = TopicEntry
    /\ \A j \in MessageEntries(prompt) :
         /\ prompt[j].role \in {"user", "assistant"}
         /\ prompt[j] # TopicEntry
         /\ prompt[j].content.body \in 1..Len(history)
         /\ prompt[j] = MapMessage(history[prompt[j].content.body], builtFor)
    /\ \A j, k \in MessageEntries(prompt) :
         j < k => prompt[j].content.body < prompt[k].content.body

C19_Witness ==
  /\ hpc = "server"
  /\ Len(prompt) >= 5
  /\ Len(history) > WindowSize
  /\ HiddenFrom(builtFor) \cap InWindow # {}

\* ------------------------------------------------------- POST /api/chat
\* The fields of the request the handler looks at.  A provider configuration
\* is [present, provider, apiKey]; apiKey tells that the body carries a key.
\* "constructor" stands for the names every object inherits: the lookup
\* providers[providerName] finds Object for it.
ProviderNames == {"openai", "anthropic", "ollama", "other", "constructor"}

NoConfig == [present |-> FALSE, provider |-> "other", apiKey |-> FALSE]

Configs ==
  {NoConfig} \cup
    {[present |-> TRUE, provider |-> n, apiKey |-> k] :
       n \in ProviderNames, k \in BOOLEAN}

NoProviders == [present |-> FALSE, defender |-> NoConfig, critic |-> NoConfig]

ProviderMaps ==
  {NoProviders} \cup
    {[present |-> TRUE, defender |-> d, critic |-> c] :
       d \in Configs, c \in Configs}

Requests ==
  [received : {TRUE},
   messages : {"array", "missing"},
   currentTurn : {"defender", "critic", "moderator", "missing"},
   providers : ProviderMaps,
   env : SUBSET {"openai", "anthropic"},
   accept : {"text/event-stream", "application/json"}]

\* providers[providerName] of createProvider: the class of the provider,
\* Object for an inherited name, undefined otherwise.
ProviderClass(type) ==
  CASE type \in {"openai", "anthropic", "ollama"} -> "provider"
    [] type = "constructor" -> "Object"
    [] OTHER -> "undefined"

\* createProvider(type, apiKey) !== null
createProvider(type) == ProviderClass(type) # "undefined"

\* The bodies the provider can answer the non-streaming request with: a
\* success status and a text, or a failure status.
Answers ==
  {[ok |-> TRUE, text |-> t] : t \in {<<>>, <<"a">>, <<"a", "e">>}} \cup
    {[ok |-> FALSE, text |-> <<>>]}

Json(status) ==
  [status |-> status, kind |-> "json", upstream |-> FALSE,
   errorEvent |-> FALSE, answer |-> <<>>, content |-> <<>>]

\* Variant of generateResponse: the text of the answer is dropped.
generateResponseEmpty(a) ==
  [Json(IF a.ok THEN 200 ELSE 500) EXCEPT !.upstream = TRUE,
                                          !.answer = a.text]
\* provider.generateResponse and the answer built from it: one request to
\* the provider with stream: false; its text is the content of the answer,
\* a failure status makes it throw.
generateResponse(a) ==
  [Json(IF a.ok THEN 200 ELSE 500) EXCEPT
     !.upstream = TRUE, !.answer = a.text,
     !.content = IF a.ok THEN a.text ELSE <<>>]

\* The answers of the handler to a request that passed every check.
Generate(req, class) ==
  IF req.accept = "text/event-stream"
    THEN {[status |-> 200, kind |-> "stream", upstream |-> class = "provider",
           errorEvent |-> class # "provider", answer |-> <<>>,
           content |-> <<>>]}
  ELSE IF class = "provider" THEN {generateResponse(a) : a \in Answers}
  ELSE {Json(500)}

\* The answers the handler can give to a request.
PostOutcomes(req) ==
  IF req.messages = "missing" THEN {Json(500)}
  ELSE IF \/ req.currentTurn = "missing"
          \/ ~req.providers.present
          \/ ~req.providers.defender.present
          \/ ~req.providers.critic.present
    THEN {Json(400)}
  ELSE IF req.currentTurn \notin Roles THEN {Json(400)}
  ELSE LET currentProvider == req.providers[req.currentTurn]
           apiKey == \/ currentProvider.apiKey
                     \/ currentProvider.provider \in req.env
       IN  IF ~currentProvider.present THEN {Json(400)}
           ELSE IF currentProvider.provider # "ollama" /\ ~apiKey
             THEN {Json(400)}
           ELSE IF ~createProvider(currentProvider.provider)
             THEN {Json(400)}
           ELSE Generate(req, ProviderClass(currentProvider.provider))

\* The statuses the handler can answer a request with.
PostStatuses(req) == {o.status : o \in PostOutcomes(req)}

\* The handler answers the request.
POST ==
  /\ request.received
  /\ httpResponse.status = 0
  /\ httpResponse' \in PostOutcomes(request)
  /\ UNCHANGED <<mode, adapterVars, relayVars, clientVars, builderVars,
                 appVars, request>>

InitPost ==
  /\ mode = "post"
  /\ InitNoGen
  /\ InitController("idle")
  /\ InitNoClient
  /\ InitNoBuilder
  /\ InitNoApp
  /\ request \in Requests
  /\ httpResponse = NoResponse

NextPost == POST

SpecPost == InitPost /\ [][NextPost]_vars

\* The request names no valid turn, or holds no provider configuration for
\* the turn it names.
InvalidTurnOrProvider(req) ==
  \/ req.currentTurn \notin Roles
  \/ ~req.providers.present
  \/ ~req.providers[req.currentTurn].present

\* C20 as stated: a request whose currentTurn is not 'defender' or 'critic',
\* or that holds no provider configuration for the current turn, is answered
\* with status 400, whatever its other fields are.
C20_Original ==
  (httpResponse.status # 0 /\ InvalidTurnOrProvider(request)) =>
    httpResponse.status = 400

\* The request holds a messages array, a valid turn and both configurations.
FieldsValid(req) ==
  /\ req.messages = "array"
  /\ req.currentTurn \in Roles
  /\ req.providers.present
  /\ req.providers.defender.present
  /\ req.providers.critic.present

\* The configuration of the current turn names a provider other than Ollama
\* without a key in the request or the environment, or an unknown provider.
ConfigurationError(req) ==
  LET currentProvider == req.providers[req.currentTurn] IN
  \/ /\ currentProvider.provider # "ollama"
     /\ ~currentProvider.apiKey
     /\ currentProvider.provider \notin req.env
  \/ currentProvider.provider \notin {"openai", "anthropic", "ollama"}

\* C21 as stated: a configuration error is answered with status 400, no
\* request to the provider and no outbound event; the provider 'ollama' is
\* never rejected for lacking a key.
C21_Original ==
  (httpResponse.status # 0 /\ FieldsValid(request)) =>
    /\ ConfigurationError(request) =>
         /\ httpResponse.status = 400
         /\ ~httpResponse.upstream
         /\ ~httpResponse.errorEvent
    /\ request.providers[request.currentTurn].provider = "ollama" =>
         httpResponse.status # 400

\* C22 as stated: without 'text/event-stream' the handler drains the
\* streaming adapter and answers with the concatenation of its fragments.
C22_Original ==
  (httpResponse.status = 200 /\ request.accept # "text/event-stream") =>
    /\ apc = "returned"
    /\ httpResponse.content = Flatten(yielded)
    /\ outbound = <<>>

\* C22, amended: without 'text/event-stream' the handler calls the
\* non-streaming generateResponse of the provider, which sends one request;
\* the answer is one JSON body whose content is the text the provider
\* answered with; the streaming generator is not started and no outbound
\* event is written.
C22_NonStreaming ==
  (httpResponse.status # 0 /\ request.accept # "text/event-stream") =>
    /\ httpResponse.kind = "json"
    /\ ~httpResponse.errorEvent
    /\ outbound = <<>>
    /\ apc = "idle"
    /\ httpResponse.status = 200 =>
         /\ httpResponse.upstream
         /\ httpResponse.content = httpResponse.answer

C22_Witness ==
  /\ request.accept # "text/event-stream"
  /\ httpResponse.status = 200
  /\ httpResponse.content = <<"a", "e">>

\* ------------------------------------------------- adapter extraction
\* The record a line of the wire format w holds: the JSON after the `data: `
\* prefix for the two SSE formats, the whole line for Ollama.
RecordOf(w, line) ==
  LET t == Trim(line) IN
  IF w = "ollama" THEN JSONparse(t)
  ELSE IF StartsWithData(t) THEN JSONparse(Slice6(t))
  ELSE [ok |-> FALSE, error |-> "", text |-> <<>>, stop |-> FALSE]

\* The line carries the terminal signal of the format: the `data: [DONE]`
\* line, an event of type message_stop, a record whose done field is true.
IsTerminalLine(w, line) ==
  IF w = "openai" THEN Trim(line) = <<"D", "X">>
  ELSE RecordOf(w, line).ok /\ RecordOf(w, line).stop

\* The text field of the record of a line: choices[0].delta.content,
\* delta.text of a content_block_delta event, response.
TextFieldOf(w, line) ==
  LET rec == RecordOf(w, line) IN
  IF rec.ok /\ ~(w = "anthropic" /\ rec.stop) THEN rec.text ELSE <<>>

\* The complete lines of the whole upstream body: every line that ends with
\* a newline.
CompleteLines(bytes) ==
  LET segs == Split(DecodeStream(FALSE, bytes).text)
  IN  [i \in 1..(Len(segs) - 1) |-> segs[i]]

\* The non-empty text fields of the lines before the first terminal line.
RECURSIVE TextsBefore(_, _)
TextsBefore(w, ls) ==
  IF ls = <<>> \/ IsTerminalLine(w, Head(ls)) THEN <<>>
  ELSE (IF TextFieldOf(w, Head(ls)) # <<>>
          THEN <<TextFieldOf(w, Head(ls))>> ELSE <<>>)
         \o TextsBefore(w, Tail(ls))

\* The non-empty text fields of the lines up to and including the first
\* terminal line.
RECURSIVE TextsThrough(_, _)
TextsThrough(w, ls) ==
  IF ls = <<>> THEN <<>>
  ELSE (IF TextFieldOf(w, Head(ls)) # <<>>
          THEN <<TextFieldOf(w, Head(ls))>> ELSE <<>>)
         \o (IF IsTerminalLine(w, Head(ls)) THEN <<>>
             ELSE TextsThrough(w, Tail(ls)))

\* C17 as stated: the fragments of a finished adapter are, in order, the
\* non-empty text fields of the complete well-formed records that precede
\* the terminal signal.
C17_Original ==
  apc = "returned" => yielded = TextsBefore(wire, CompleteLines(upstream))

\* C17, amended: the fragments of a finished adapter are, in order, the
\* non-empty text fields of the complete well-formed records up to the
\* terminal signal, the record that carries the signal included (an Ollama
\* record with done true and a non-empty response).
C17_Extraction ==
  apc = "returned" => yielded = TextsThrough(wire, CompleteLines(upstream))

C17_Witness ==
  /\ wire = "anthropic"
  /\ upstream = <<"D", "{", "a", "}", NL, "D", "{", "S", "}", NL>>
  /\ apc = "returned"
  /\ termParsed
  /\ yielded = << <<"a">> >>

\* ------------------------------------------------- malformed records
\* An adapter, or a client loop, over input that holds lines that do not
\* parse.
SkipStreams == RecordStreams(MaxRecords)

InitSkip ==
  \/ InitClient
  \/ /\ mode = "adapter"
     /\ InitGen(SkipStreams)
     /\ InitController("idle")
     /\ InitNoClient
     /\ InitNoServer

NextSkip ==
  \/ NextClient
  \/ NextAdapter

SpecSkip == InitSkip /\ [][NextSkip]_vars

\* The line is a record of the wire format w whose payload JSON.parse
\* rejects.
Malformed(w, line) ==
  /\ Trim(line) # <<>>
  /\ ~IsTerminalLine(w, line)
  /\ w = "ollama" \/ StartsWithData(Trim(line))
  /\ ~RecordOf(w, line).ok

RECURSIVE WellFormed(_, _)
WellFormed(w, ls) ==
  IF ls = <<>> THEN <<>>
  ELSE (IF Malformed(w, Head(ls)) THEN <<>> ELSE <<Head(ls)>>)
         \o WellFormed(w, Tail(ls))

\* The event a line of the response body holds for the client loop.
ClientRecord(line) ==
  IF StartsWithData(line) THEN JSONparse(Slice6(line))
  ELSE [ok |-> FALSE, error |-> "", text |-> <<>>, stop |-> FALSE]

\* The line ends the client loop v: the terminal marker, or an error event
\* in the loop that rethrows it.
ClientStops(v, line) ==
  \/ line = <<"D", "X">>
  \/ /\ RethrowsErrorEvent(v)
     /\ Trim(line) # <<>>
     /\ ClientRecord(line).ok
     /\ ClientRecord(line).error # ""

\* The content field of the content event of a line.
ClientText(line) ==
  LET rec == ClientRecord(line) IN
  IF Trim(line) # <<>> /\ rec.ok /\ rec.error = "" THEN rec.text ELSE <<>>

\* The non-empty content fields of the lines before the first line that ends
\* the loop.
RECURSIVE ClientTexts(_, _)
ClientTexts(v, ls) ==
  IF ls = <<>> \/ ClientStops(v, Head(ls)) THEN <<>>
  ELSE (IF ClientText(Head(ls)) # <<>> THEN <<ClientText(Head(ls))>> ELSE <<>>)
         \o ClientTexts(v, Tail(ls))

\* The error events among the lines ls.
ErrorsIn(ls) ==
  {ClientRecord(ls[i]).error :
     i \in {k \in 1..Len(ls) : ClientRecord(ls[k]).ok}} \ {""}

\* C26: a line that does not parse is skipped and nothing else. A finished
\* adapter has thrown nothing and has yielded what it yields when the
\* malformed lines are taken out of its input; the client loop adds, for
\* every chunk it reads, the content of every content event among the lines
\* of the chunk up to the line that ends the loop, whatever unparseable lines
\* stand between them, and it rejects only on an error event of the chunk.
C26_MalformedSkipped ==
  [][/\ apc' = "returned" =>
          /\ genErr' = NoError
          /\ yielded' =
               TextsThrough(wire, WellFormed(wire, CompleteLines(upstream)))
     /\ netPos' > netPos =>
          LET ls == Split(DecodeChunk(SubSeq(net, netPos + 1, netPos')))
          IN  /\ fullResponse' = fullResponse \o Flatten(ClientTexts(variant, ls))
              /\ kpc' = "rejected" => rejectMsg' \in ErrorsIn(ls)]_vars

\* Witness of C26: the OpenAI adapter met a truncated record, then a
\* well-formed one, and yielded the text of the second.
C26_Witness ==
  /\ wire = "openai"
  /\ upstream = <<"D", "{", "a", NL, "D", "{", "a", "}", NL>>
  /\ apc = "returned"
  /\ genErr = NoError
  /\ yielded = << <<"a">> >>

\* ------------------------------------------------- conversation store
MaxConversations == 2
MaxMessages == 2

ConversationIds == 1..MaxConversations
Statuses == {"ACTIVE", "PAUSED", "COMPLETED"}

\* The rows of table messages that belong to conversation id, oldest first:
\* include: { messages: { orderBy: { timestamp: 'asc' } } }.
MessagesOf(rows, id) == SelectSeq(rows, LAMBDA r : r.conversationId = id)

CascadeNone(rows, id) == rows

\* ON DELETE CASCADE of messages.conversationId.
Cascade(rows, id) == SelectSeq(rows, LAMBDA r : r.conversationId # id)

\* An answer of a conversation route.
DbAnswer(op, id, status, rows) ==
  [op |-> op, id |-> id, status |-> status, rows |-> rows]

\* ConversationDB.getById as the routes answer it: the conversation with its
\* messages, or nothing.
GetById(id) ==
  IF id \in DOMAIN convTable THEN MessagesOf(msgTable, id) ELSE <<>>

\* POST /api/conversations with the required fields: a row with a new cuid.
CreateConversation ==
  /\ nextCuid <= MaxConversations
  /\ convTable' = [i \in DOMAIN convTable \cup {nextCuid} |->
                     IF i = nextCuid THEN "ACTIVE" ELSE convTable[i]]
  /\ nextCuid' = nextCuid + 1
  /\ dbResponse' = DbAnswer("POST", nextCuid, 200, <<>>)
  /\ UNCHANGED <<msgTable, msgCount, posting, deleted>>

\* GET /api/conversations/{id}
GetConversation(id) ==
  /\ dbResponse' = IF id \in DOMAIN convTable
                     THEN DbAnswer("GET", id, 200, GetById(id))
                     ELSE DbAnswer("GET", id, 404, <<>>)
  /\ UNCHANGED <<convTable, msgTable, nextCuid, msgCount, posting, deleted>>

\* PATCH /api/conversations/{id} with a status: prisma update throws when
\* the row does not exist.
PatchConversation(id, status) ==
  /\ IF id \in DOMAIN convTable
       THEN /\ convTable' = [convTable EXCEPT ![id] = status]
            /\ dbResponse' = DbAnswer("PATCH", id, 200, GetById(id))
       ELSE /\ dbResponse' = DbAnswer("PATCH", id, 500, <<>>)
            /\ UNCHANGED convTable
  /\ UNCHANGED <<msgTable, nextCuid, msgCount, posting, deleted>>

\* DELETE /api/conversations/{id}: prisma delete throws when the row does not
\* exist; the rows of table messages go with the conversation.
DeleteConversation(id) ==
  /\ IF id \in DOMAIN convTable
       THEN /\ convTable' = [i \in DOMAIN convTable \ {id} |-> convTable[i]]
            /\ msgTable' = Cascade(msgTable, id)
            /\ deleted' = deleted \cup {id}
            /\ dbResponse' = DbAnswer("DELETE", id, 200, <<>>)
       ELSE /\ dbResponse' = DbAnswer("DELETE", id, 500, <<>>)
            /\ UNCHANGED <<convTable, msgTable, deleted>>
  /\ UNCHANGED <<nextCuid, msgCount, posting>>

\* POST /api/conversations/{id}/messages, first statement of addMessage:
\* prisma.message.create, which the foreign key rejects when the conversation
\* does not exist.
PostMessageCreate(id) ==
  /\ posting = NoPosting
  /\ msgCount < MaxMessages
  /\ IF id \in DOMAIN convTable
       THEN /\ msgTable' = Append(msgTable, [id |-> msgCount + 1,
                                                conversationId |-> id])
            /\ msgCount' = msgCount + 1
            /\ posting' = [id |-> id, next |-> "update"]
            /\ UNCHANGED dbResponse
       ELSE /\ dbResponse' = DbAnswer("POSTMSG", id, 500, <<>>)
            /\ UNCHANGED <<msgTable, msgCount, posting>>
  /\ UNCHANGED <<convTable, nextCuid, deleted>>

\* Second statement of addMessage: prisma.conversation.update of updatedAt.
PostMessageUpdate ==
  /\ posting.next = "update"
  /\ IF posting.id \in DOMAIN convTable
       THEN /\ posting' = [posting EXCEPT !.next = "get"]
            /\ UNCHANGED dbResponse
       ELSE /\ posting' = NoPosting
            /\ dbResponse' = DbAnswer("POSTMSG", posting.id, 500, <<>>)
  /\ UNCHANGED <<convTable, msgTable, nextCuid, msgCount, deleted>>

\* The route answers with ConversationDB.getById(id).
PostMessageAnswer ==
  /\ posting.next = "get"
  /\ posting' = NoPosting
  /\ dbResponse' = DbAnswer("POSTMSG", posting.id, 200, GetById(posting.id))
  /\ UNCHANGED <<convTable, msgTable, nextCuid, msgCount, deleted>>

StoreStep(step) ==
  /\ step
  /\ UNCHANGED <<mode, adapterVars, relayVars, clientVars, builderVars,
                 postVars, slugVars, turnVars, hookVars>>

InitStore ==
  /\ mode = "store"
  /\ InitNoGen
  /\ InitController("idle")
  /\ InitNoClient
  /\ InitNoBuilder
  /\ InitNoPost
  /\ InitDb
  /\ InitNoSlug
  /\ InitPage
  /\ InitHook

NextStore ==
  \/ StoreStep(CreateConversation)
  \/ \E id \in ConversationIds : StoreStep(GetConversation(id))
  \/ \E id \in ConversationIds, st \in Statuses :
       StoreStep(PatchConversation(id, st))
  \/ \E id \in ConversationIds : StoreStep(DeleteConversation(id))
  \/ \E id \in ConversationIds : StoreStep(PostMessageCreate(id))
  \/ StoreStep(PostMessageUpdate)
  \/ StoreStep(PostMessageAnswer)

SpecStore == InitStore /\ [][NextStore]_vars

\* C27: once DELETE /api/conversations/{id} has answered success, the
\* conversation has no row and no message row, whatever was added or updated
\* before, and a GET of that id answers 404 without messages.
C27_DeletedIsGone ==
  \A id \in deleted :
    /\ id \notin DOMAIN convTable
    /\ MessagesOf(msgTable, id) = <<>>
    /\ (dbResponse.op = "GET" /\ dbResponse.id = id) =>
         (dbResponse.status = 404 /\ dbResponse.rows = <<>>)

\* Witness of C27: a conversation that was updated and had messages was
\* deleted, and the GET that followed answered 404.
C27_Witness ==
  /\ nextCuid = 2
  /\ msgCount = MaxMessages
  /\ deleted = {1}
  /\ msgTable = <<>>
  /\ dbResponse = DbAnswer("GET", 1, 404, <<>>)

\* ------------------------------------------------- conversation links
\* Characters of titles and ids: "B" an upper-case letter, "b" its lower
\* case, "c" "m" "j" lower-case letters, "7" "0" digits, "w" white space,
\* "-" the hyphen, "!" any other character.
MaxTitle == 3
MaxIdTail == 2

TitleLimit == 50
ShortIdLength == 9

\* String.prototype.substring(0, n)
Substring0(s, n) == SubSeq(s, 1, IF Len(s) < n THEN Len(s) ELSE n)

\* String.prototype.toLowerCase
RECURSIVE ToLowerCase(_)
ToLowerCase(s) ==
  IF s = <<>> THEN <<>>
  ELSE <<(IF Head(s) = "B" THEN "b" ELSE Head(s))>> \o ToLowerCase(Tail(s))

\* .replace(/[^a-z0-9\s-]/g, '')
RECURSIVE RemoveSpecial(_)
RemoveSpecial(s) ==
  IF s = <<>> THEN <<>>
  ELSE (IF Head(s) \in {"b", "c", "m", "j", "l", "e", "7", "0", "w", "-"}
          THEN <<Head(s)>> ELSE <<>>) \o RemoveSpecial(Tail(s))

\* .replace(/c+/g, '-') for the character c: every run of c becomes one
\* hyphen.
RECURSIVE RunsToHyphen(_, _)
RunsToHyphen(s, c) ==
  IF s = <<>> THEN <<>>
  ELSE IF Head(s) # c THEN <<Head(s)>> \o RunsToHyphen(Tail(s), c)
  ELSE IF Len(s) >= 2 /\ s[2] = c THEN RunsToHyphen(Tail(s), c)
  ELSE <<"-">> \o RunsToHyphen(Tail(s), c)

\* String.prototype.split('-'): the segments between hyphens, at least one.
RECURSIVE SplitHyphen(_)
SplitHyphen(s) ==
  IF \A i \in 1..Len(s) : s[i] # "-" THEN <<s>>
  ELSE LET i == CHOOSE k \in 1..Len(s) :
                  s[k] = "-" /\ \A j \in 1..(k - 1) : s[j] # "-"
       IN  <<SubSeq(s, 1, i - 1)>> \o SplitHyphen(SubSeq(s, i + 1, Len(s)))

createConversationSlug(title, id) ==
  LET titleSlug ==
        Substring0(
          Trim(RunsToHyphen(RunsToHyphen(RemoveSpecial(ToLowerCase(title)),
                                         "w"), "-")),
          TitleLimit)
      short == Substring0(id, ShortIdLength)
  IN  titleSlug \o <<"-">> \o short

extractFirstPart(s) == SplitHyphen(s)[1]

extractIdFromSlug(s) ==
  LET parts == SplitHyphen(s) IN parts[Len(parts)]

\* conversations.find((conv) => conv.id.startsWith(shortId)) || null
findConversationByShortId(conversations, short) ==
  LET hits == {i \in 1..Len(conversations) : IsPrefix(short, conversations[i])}
  IN  IF hits = {} THEN <<>>
      ELSE <<conversations[CHOOSE i \in hits : \A j \in hits : i <= j]>>

RECURSIVE Strings(_, _)
Strings(chars, n) ==
  IF n = 0 THEN {<<>>}
  ELSE LET shorter == Strings(chars, n - 1)
       IN  shorter \cup {<<c>> \o q : c \in chars, q \in shorter}

Titles == Strings({"B", "w", "-", "!"}, MaxTitle)

\* Ids: eight characters, with or without a hyphen among them, and what
\* follows them.
LinkIds ==
  {b \o t : b \in {<<"c", "m", "c", "c", "m", "l", "e", "7">>,
                   <<"c", "m", "-", "c", "m", "l", "e", "7">>},
            t \in Strings({"j", "0", "-"}, MaxIdTail)}

\* The lists of conversations that hold the conversation id.
ListsWith(id) ==
  {<<id>>} \cup {<<id, o>> : o \in LinkIds} \cup {<<o, id>> : o \in LinkIds}

\* The sidebar makes the link of a conversation.
MakeSlug ==
  /\ spc = "input"
  /\ slug' = createConversationSlug(slugTitle, slugId)
  /\ spc' = "slug"
  /\ UNCHANGED <<slugTitle, slugId, convList, shortId, found>>

\* The page reads the id off the link.
ExtractId ==
  /\ spc = "slug"
  /\ shortId' = extractIdFromSlug(slug)
  /\ spc' = "short"
  /\ UNCHANGED <<slugTitle, slugId, convList, slug, found>>

\* The page looks the conversation up among the loaded ones.
FindConversation ==
  /\ spc = "short"
  /\ \E cs \in ListsWith(slugId) :
       /\ convList' = cs
       /\ found' = findConversationByShortId(cs, shortId)
  /\ spc' = "found"
  /\ UNCHANGED <<slugTitle, slugId, slug, shortId>>

SlugStep(step) ==
  /\ step
  /\ UNCHANGED <<mode, adapterVars, relayVars, clientVars, builderVars,
                 postVars, dbVars, turnVars, hookVars>>

InitSlug ==
  /\ mode = "slug"
  /\ InitNoGen
  /\ InitController("idle")
  /\ InitNoClient
  /\ InitNoBuilder
  /\ InitNoPost
  /\ InitDb
  /\ InitPage
  /\ InitHook
  /\ slugTitle \in Titles
  /\ slugId \in LinkIds
  /\ convList = <<>>
  /\ slug = <<>>
  /\ shortId = <<>>
  /\ found = <<>>
  /\ spc = "input"

NextSlug ==
  \/ SlugStep(MakeSlug)
  \/ SlugStep(ExtractId)
  \/ SlugStep(FindConversation)

SpecSlug == InitSlug /\ [][NextSlug]_vars

NoHyphen(s) == \A i \in 1..Len(s) : s[i] # "-"

\* C28: for every title and every id whose first 9 characters hold no hyphen,
\* the id read off the link is the first 9 characters of the id, and the
\* lookup among conversations that hold this one finds a conversation whose
\* id starts with it: this one when no other id starts with it.
C28_SlugRoundTrip ==
  NoHyphen(Substring0(slugId, ShortIdLength)) =>
    /\ spc \in {"short", "found"} =>
         shortId = Substring0(slugId, ShortIdLength)
    /\ spc = "found" =>
         /\ found # <<>>
         /\ IsPrefix(shortId, found[1])
         /\ (\A i \in 1..Len(convList) :
               IsPrefix(shortId, convList[i]) => convList[i] = slugId)
              => found = <<slugId>>

\* Witness of C28: a title with upper case, white space, a hyphen and a
\* special character, an id longer than 9 characters, found behind another
\* conversation.
C28_Witness ==
  /\ spc = "found"
  /\ slugTitle = <<"B", "w", "!">>
  /\ slugId = <<"c", "m", "c", "c", "m", "l", "e", "7", "j", "0">>
  /\ slug = <<"b", "-", "-", "c", "m", "c", "c", "m", "l", "e", "7", "j">>
  /\ shortId = <<"c", "m", "c", "c", "m", "l", "e", "7", "j">>
  /\ convList = <<<<"c", "m", "c", "c", "m", "l", "e", "7", "0">>, slugId>>
  /\ found = <<slugId>>

\* ------------------------------------- client-side Ollama streaming
\* ClientOllamaProvider.generateStreamingResponse and
\* OllamaClient.generateStreamingResponse run the same loop.
OllamaRecords == 2

OllamaTemplates ==
  { <<>>,
    <<"{", "a", "}">>,
    <<"{", "h", "l", "}">>,
    <<"{", "h", "l", "S", "}">> }

RECURSIVE OllamaBodies(_)
OllamaBodies(n) ==
  IF n = 0 THEN {<<>>}
  ELSE LET shorter == OllamaBodies(n - 1)
       IN  shorter \cup {t \o <<NL>> \o q : t \in OllamaTemplates, q \in shorter}

\* chunk.split('\n').filter((line) => line.trim())
FilterBlank(segs) == SelectSeq(segs, LAMBDA l : Trim(l) # <<>>)

\* The lines the loop visits for the bytes of one read:
\* decoder.decode(value), split, filter; nothing is kept for the next read.
OllamaClientLines(bytes) == FilterBlank(Split(DecodeChunk(bytes)))

\* `await reader.read()` settles with the next k bytes.
OllamaClientReadChunk ==
  /\ apc = "read"
  /\ \E k \in 1..(Len(upstream) - upPos) :
       /\ upPos' = upPos + k
       /\ GenContinue(RunLines(wire,
            OllamaClientLines(SubSeq(upstream, upPos + 1, upPos + k))))
  /\ reads' = reads + 1
  /\ UNCHANGED <<wire, upstream, decPending, buffer, genErr, heldBack>>

InitOllamaClient ==
  /\ mode = "ollamaClient"
  /\ wire = "ollama"
  /\ upstream \in OllamaBodies(OllamaRecords)
  /\ upPos = 0
  /\ decPending = FALSE
  /\ buffer = <<>>
  /\ lines = <<>>
  /\ lineStop = FALSE
  /\ apc = "fetch"
  /\ readerLocked = FALSE
  /\ genErr = NoError
  /\ yielded = <<>>
  /\ reads = 0
  /\ termParsed = FALSE
  /\ heldBack = FALSE
  /\ InitController("idle")
  /\ InitNoClient
  /\ InitNoServer

NextOllamaClient ==
  \/ (GenStartOk /\ UNCHANGED <<mode, serverVars, clientVars, relayVars>>)
  \/ (OllamaClientReadChunk
        /\ UNCHANGED <<mode, serverVars, clientVars, relayVars>>)
  \/ (GenReadDone /\ UNCHANGED <<mode, serverVars, clientVars, relayVars>>)
  \/ (GenResume /\ UNCHANGED <<mode, serverVars, clientVars, relayVars>>)
  \/ (Consume /\ UNCHANGED <<mode, serverVars, clientVars, relayVars>>)

SpecOllamaClient == InitOllamaClient /\ [][NextOllamaClient]_vars

\* C29 as stated: the client-side Ollama generators hold back a record split
\* across two reads, so a finished generator has yielded the fragments it
\* yields when the same bytes arrive in one read.
C29_Original ==
  apc = "returned" => yielded = Drain(wire, OllamaClientLines(upstream))

\* ------------------------------------------------------ turns of the page
\* The sessions of the page.  A setTimeout callback and the call it makes see
\* isDebateActive, isGenerating, currentSessionId and currentSession of the
\* render in which handleSubmit ran.
MaxSessions == 2
MaxSessionLen == 2

AutoContinueLimit == 6

FirstSpeakerCritic == "critic"

\* `generateAIDebateResponse('defender')` of handleSubmit.
FirstSpeaker == "defender"

\* nextTurn
NextTurn(aiRole) == IF aiRole = "defender" THEN "critic" ELSE "defender"

\* createNewConversation: the new session becomes the current one.
CreateNewConversation ==
  /\ Len(sessionLen) < MaxSessions
  /\ currentSessionId' = Len(sessionLen) + 1
  /\ sessionLen' = Append(sessionLen, 0)
  /\ sessionStatus' = Append(sessionStatus, "active")
  /\ isDebateActive' = FALSE
  /\ UNCHANGED <<isGenerating, timers, inflight, turnLog>>

\* selectSession(sessionId)
SelectSession(sessionId) ==
  /\ sessionId \in 1..Len(sessionLen)
  /\ currentSessionId' = sessionId
  /\ isDebateActive' = (sessionStatus[sessionId] = "active")
  /\ UNCHANGED <<sessionLen, sessionStatus, isGenerating, timers, inflight,
                 turnLog>>

\* toggleDebate; its button is shown once the session has a message and is
\* disabled while isGenerating.
ToggleDebate ==
  /\ currentSessionId # 0
  /\ sessionLen[currentSessionId] > 0
  /\ ~isGenerating
  /\ isDebateActive' = ~isDebateActive
  /\ sessionStatus' =
       [sessionStatus EXCEPT ![currentSessionId] =
          IF isDebateActive THEN "paused" ELSE "active"]
  /\ UNCHANGED <<currentSessionId, sessionLen, isGenerating, timers, inflight,
                 turnLog>>

\* handleSubmit with a non-empty input, a whisper or not: the message is
\* added; when the debate is not active it is started, and the first message
\* of the session schedules the first AI response.
SubmitMessage ==
  /\ currentSessionId # 0
  /\ sessionLen[currentSessionId] < MaxSessionLen
  /\ sessionLen' = [sessionLen EXCEPT ![currentSessionId] = @ + 1]
  /\ isDebateActive' = TRUE
  /\ timers' = IF ~isDebateActive /\ sessionLen[currentSessionId] = 0
                 THEN timers \cup {[role |-> FirstSpeaker,
                                    session |-> currentSessionId,
                                    active |-> isDebateActive,
                                    len |-> sessionLen[currentSessionId],
                                    generating |-> isGenerating]}
                 ELSE timers
  /\ UNCHANGED <<currentSessionId, sessionStatus, isGenerating, inflight,
                 turnLog>>

\* A setTimeout callback runs generateAIDebateResponse(role) up to its await:
\* it returns at once when isGenerating was true in its render.
TimerRuns ==
  /\ \E t \in timers :
       /\ timers' = timers \ {t}
       /\ IF t.generating
            THEN UNCHANGED <<isGenerating, inflight, turnLog>>
            ELSE /\ isGenerating' = TRUE
                 /\ inflight' = inflight \cup {t}
                 /\ turnLog' = Append(turnLog, <<"ask", t.role, t.session>>)
  /\ UNCHANGED <<currentSessionId, sessionLen, sessionStatus, isDebateActive>>

\* generateAIResponse resolves: the AI message is added to the session of
\* the call, the turn switches and the next response is scheduled when the
\* debate was active and the session had fewer than 6 messages in the render
\* of the call.
ResponseResolves ==
  \E c \in inflight :
    /\ sessionLen' = [sessionLen EXCEPT ![c.session] = @ + 1]
    /\ isGenerating' = FALSE
    /\ inflight' = inflight \ {c}
    /\ turnLog' = Append(turnLog, <<"resp", c.role, c.session>>)
    /\ timers' = IF c.active /\ c.len < AutoContinueLimit
                   THEN timers \cup {[c EXCEPT !.role = NextTurn(@)]}
                   ELSE timers
    /\ UNCHANGED <<currentSessionId, sessionStatus, isDebateActive>>

\* generateAIResponse rejects: the error is logged.
ResponseRejects ==
  \E c \in inflight :
    /\ isGenerating' = FALSE
    /\ inflight' = inflight \ {c}
    /\ UNCHANGED <<currentSessionId, sessionLen, sessionStatus,
                   isDebateActive, timers, turnLog>>

PageStep(step) ==
  /\ step
  /\ UNCHANGED <<mode, adapterVars, relayVars, clientVars, builderVars,
                 postVars, dbVars, slugVars, hookVars>>

InitTurns ==
  /\ mode = "page"
  /\ InitNoGen
  /\ InitController("idle")
  /\ InitNoClient
  /\ InitNoBuilder
  /\ InitNoPost
  /\ InitDb
  /\ InitNoSlug
  /\ InitPage
  /\ InitHook

NextTurns ==
  \/ PageStep(CreateNewConversation)
  \/ \E sessionId \in 1..MaxSessions : PageStep(SelectSession(sessionId))
  \/ PageStep(ToggleDebate)
  \/ PageStep(SubmitMessage)
  \/ PageStep(TimerRuns)
  \/ PageStep(ResponseResolves)
  \/ PageStep(ResponseRejects)

SpecTurns == InitTurns /\ [][NextTurns]_vars

\* The events of session sid in turnLog, in order.
TurnsOf(sid) == SelectSeq(turnLog, LAMBDA ev : ev[3] = sid)

C31_Original ==
  [][(/\ Len(turnLog') = Len(turnLog) + 1
      /\ turnLog'[Len(turnLog')][1] = "resp")
       => LET aiRole == turnLog'[Len(turnLog')][2]
              sid == turnLog'[Len(turnLog')][3]
              evs == SelectSeq(TurnsOf(sid), LAMBDA ev : ev[1] = "resp")
          IN /\ (isDebateActive /\ currentSessionId = sid
                   /\ sessionLen'[sid] < AutoContinueLimit)
                  => \E t \in timers' :
                       t.session = sid /\ t.role = NextTurn(aiRole)
             /\ evs # <<>> => evs[Len(evs)][2] # aiRole
             /\ sessionLen[sid] >= AutoContinueLimit => timers' = timers]_vars

\* ------------------------------------------------ calls of useAIDebate
\* The streaming calls of generateAIResponse of the hook with
\* currentAbortController.  generateAIResponse and cleanup are made anew in
\* every render in which currentAbortController changed; a caller uses the
\* ones of the render it holds.
MaxCalls == 3

InFlight(calls, n) == calls[n].pc \in {"fetch", "read"}

\* abortController.abort() of call n; 0 is no controller.
Abort(calls, n) ==
  IF n = 0 THEN calls ELSE [calls EXCEPT ![n].aborted = TRUE]

\* generateAIResponse up to `await fetch`: the controller of the caller's
\* render is aborted, isGenerating is set, the new controller is stored.
Invoke ==
  /\ Len(hookCalls) < MaxCalls
  /\ hookCalls' =
       Append(Abort(hookCalls, heldController),
              [pc |-> "fetch", aborted |-> FALSE,
               during |-> \E m \in 1..Len(hookCalls) : InFlight(hookCalls, m)])
  /\ isGenerating' = TRUE
  /\ currentAbortController' = Len(hookCalls) + 1
  /\ UNCHANGED heldController

\* The caller takes generateAIResponse and cleanup of the latest render.
Rerender ==
  /\ heldController # currentAbortController
  /\ heldController' = currentAbortController
  /\ UNCHANGED <<hookCalls, isGenerating, currentAbortController>>

\* fetch resolves with an ok response that has a body.
FetchResolves(n) ==
  /\ hookCalls[n].pc = "fetch"
  /\ ~hookCalls[n].aborted
  /\ hookCalls' = [hookCalls EXCEPT ![n].pc = "read"]
  /\ UNCHANGED <<isGenerating, currentAbortController, heldController>>

\* `finally` of generateAIResponse.
Settle(calls, n, how) ==
  /\ hookCalls' = [calls EXCEPT ![n].pc = how]
  /\ isGenerating' = FALSE
  /\ currentAbortController' = 0
  /\ UNCHANGED heldController

\* The stream of call n ends or '[DONE]' is read.
CallResolves(n) ==
  /\ hookCalls[n].pc = "read"
  /\ ~hookCalls[n].aborted
  /\ Settle(hookCalls, n, "resolved")

\* fetch or reader.read of call n rejects (abort, network), or the response
\* is not ok, or an error event is read.
CallRejects(n) ==
  /\ InFlight(hookCalls, n)
  /\ Settle(hookCalls, n, "rejected")

\* cleanup()
Cleanup ==
  /\ heldController # 0
  /\ hookCalls' = Abort(hookCalls, heldController)
  /\ currentAbortController' = 0
  /\ UNCHANGED <<isGenerating, heldController>>

HookStep(step) ==
  /\ step
  /\ UNCHANGED <<mode, adapterVars, relayVars, clientVars, builderVars,
                 postVars, dbVars, slugVars, currentSessionId, sessionLen,
                 sessionStatus, isDebateActive, timers, inflight, turnLog,
                 fallbackCalls>>

InitHookCalls ==
  /\ mode = "hook"
  /\ InitNoGen
  /\ InitController("idle")
  /\ InitNoClient
  /\ InitNoServer

NextHook ==
  \/ HookStep(Invoke)
  \/ HookStep(Rerender)
  \/ \E n \in 1..Len(hookCalls) : HookStep(FetchResolves(n))
  \/ \E n \in 1..Len(hookCalls) : HookStep(CallResolves(n))
  \/ \E n \in 1..Len(hookCalls) : HookStep(CallRejects(n))
  \/ HookStep(Cleanup)

SpecHook == InitHookCalls /\ [][NextHook]_vars

\* C32: a call made while an earlier call was in flight has every earlier
\* call in flight aborted, and while it is in flight and not aborted itself
\* isGenerating is true and the stored controller is its own, whatever the
\* earlier calls do.
C32_Original ==
  \A n \in 1..Len(hookCalls) :
    (/\ n = Len(hookCalls)
     /\ hookCalls[n].during
     /\ InFlight(hookCalls, n)
     /\ ~hookCalls[n].aborted)
      => /\ \A m \in 1..(n - 1) :
              InFlight(hookCalls, m) => hookCalls[m].aborted
         /\ isGenerating
         /\ currentAbortController = n

\* ------------------------------------------- the last record of a stream
\* The adapters on streams whose last record is not ended by a newline when
\* the provider closes the stream.
TailRecords == 1

\* Records that may stand after the last newline: text, the terminal signal
\* of each format, text with the terminal signal.
LastRecords ==
  { <<"D", "{", "a", "}">>, <<"D", "X">>, <<"D", "{", "S", "}">>,
    <<"{", "a", "}">>, <<"{", "h", "l", "S", "}">> }

TailStreams == {s \o t : s \in RecordStreams(TailRecords), t \in LastRecords}

InitTail ==
  /\ mode = "adapter"
  /\ InitGen(TailStreams)
  /\ InitController("idle")
  /\ InitNoClient
  /\ InitNoServer

SpecTail == InitTail /\ [][NextAdapter]_vars

\* What stands after the last newline of the decoded body.
LastSegment(bytes) ==
  LET segs == Split(DecodeStream(FALSE, bytes).text) IN segs[Len(segs)]

\* C34: a finished adapter has yielded the text fields of the lines that
\* ended with a newline and nothing else, it has seen a terminal signal only
\* if one of those lines carries it, and when the stream ended without one
\* the unterminated last record is still in the buffer, unparsed.
C34_TailDiscarded ==
  apc = "returned" =>
    LET ls == CompleteLines(upstream) IN
    /\ yielded = TextsThrough(wire, ls)
    /\ termParsed <=> \E i \in 1..Len(ls) : IsTerminalLine(wire, ls[i])
    /\ ~termParsed => buffer = LastSegment(upstream)

\* Witness of C34: the OpenAI stream ends with a `data: [DONE]` that has no
\* newline; the adapter returned at the end of the stream with the one
\* fragment of the first record and without having seen the terminal signal.
C34_Witness ==
  /\ wire = "openai"
  /\ upstream = <<"D", "{", "a", "}", NL, "D", "X">>
  /\ apc = "returned"
  /\ yielded = << <<"a">> >>
  /\ ~termParsed
  /\ buffer = <<"D", "X">>

\* --------------------------------------- handleOllamaRequest with a stream
\* handleOllamaRequest of useHybridAI called with onStreamChunk, in its two
\* versions: "cors" rethrows an error whose message holds 'CORS blocked',
\* "earlier" falls back on every error.
OllamaHandlers == {"cors", "earlier"}

\* How the generator of the Ollama client ends after the chunks of `sent`:
\* it returns, or it throws; it throws the 'CORS blocked' error for a fetch
\* that failed, before any chunk.
StreamEndings(fs) ==
  {"done", "mNetwork"} \cup (IF fs = <<>> THEN {"mCors"} ELSE {})

\* data.message?.content || '' of the answer to the request with stream: false
FallbackAnswers == {<<>>, <<"a">>, <<"a", "e">>}

\* `fullResponse = await ollamaClient.generateResponse(...)`
FallbackText(streamed, answer) == answer

\* errorMessage.includes('CORS blocked')
IsCorsBlocked(v, m) == v = "cors" /\ m = "mCors"

\* One round of `for await`: fullResponse += chunk; onStreamChunk(chunk).
OllamaChunk ==
  /\ kpc = "read"
  /\ Len(chunkCalls) < Len(sent)
  /\ LET chunk == sent[Len(chunkCalls) + 1] IN
       /\ fullResponse' = fullResponse \o chunk
       /\ chunkCalls' = Append(chunkCalls, chunk)
  /\ UNCHANGED <<kpc, result, rejectMsg, fallbackCalls>>

\* The generator returns: return fullResponse.
OllamaStreamEnds ==
  /\ kpc = "read"
  /\ Len(chunkCalls) = Len(sent)
  /\ ending = "done"
  /\ kpc' = "resolved"
  /\ result' = fullResponse
  /\ UNCHANGED <<fullResponse, chunkCalls, rejectMsg, fallbackCalls>>

\* The generator throws: the catch rethrows a CORS error and otherwise
\* starts the request with stream: false.
OllamaStreamThrows ==
  /\ kpc = "read"
  /\ Len(chunkCalls) = Len(sent)
  /\ ending # "done"
  /\ IF IsCorsBlocked(variant, ending)
       THEN /\ kpc' = "rejected"
            /\ rejectMsg' = "mOllamaCors"
            /\ UNCHANGED fallbackCalls
       ELSE /\ kpc' = "fallback"
            /\ fallbackCalls' = fallbackCalls + 1
            /\ UNCHANGED rejectMsg
  /\ UNCHANGED <<fullResponse, chunkCalls, result>>

\* generateResponse resolves with the answer.
FallbackResolves ==
  /\ kpc = "fallback"
  /\ \E answer \in FallbackAnswers :
       /\ fullResponse' = FallbackText(fullResponse, answer)
       /\ result' = FallbackText(fullResponse, answer)
  /\ kpc' = "resolved"
  /\ UNCHANGED <<chunkCalls, rejectMsg, fallbackCalls>>

\* generateResponse rejects: the error is rethrown.
FallbackRejects ==
  /\ kpc = "fallback"
  /\ kpc' = "rejected"
  /\ rejectMsg' = "mNetwork"
  /\ UNCHANGED <<fullResponse, chunkCalls, result, fallbackCalls>>

FallbackStep(step) ==
  /\ step
  /\ UNCHANGED <<mode, adapterVars, relayVars, builderVars, postVars, dbVars,
                 slugVars, turnVars, hookCalls, currentAbortController,
                 heldController, variant, sent, ending, net, netPos,
                 clientLocked, timer, signal, releaseLog, streamingMessage,
                 aiMessages>>

InitFallback ==
  /\ mode = "ollamaRequest"
  /\ InitNoGen
  /\ InitController("idle")
  /\ InitNoServer
  /\ variant \in OllamaHandlers
  /\ sent \in FragmentSeqs(MaxFragments)
  /\ ending \in StreamEndings(sent)
  /\ net = <<>>
  /\ netPos = 0
  /\ fullResponse = <<>>
  /\ chunkCalls = <<>>
  /\ kpc = "read"
  /\ result = <<>>
  /\ rejectMsg = ""
  /\ clientLocked = FALSE
  /\ timer = "none"
  /\ signal = "live"
  /\ releaseLog = <<>>
  /\ streamingMessage = <<>>
  /\ aiMessages = <<>>

NextFallback ==
  \/ FallbackStep(OllamaChunk)
  \/ FallbackStep(OllamaStreamEnds)
  \/ FallbackStep(OllamaStreamThrows)
  \/ FallbackStep(FallbackResolves)
  \/ FallbackStep(FallbackRejects)

SpecFallback == InitFallback /\ [][NextFallback]_vars

\* C35: the text handleOllamaRequest returns is the concatenation of the
\* chunks it passed to onStreamChunk, also when the stream failed and the
\* request with stream: false supplied the result; after a 'CORS blocked'
\* failure of the stream no such request is made.
C35_Original ==
  /\ kpc = "resolved" => result = Flatten(chunkCalls)
  /\ (ending = "mCors" /\ kpc # "read") => fallbackCalls = 0

\* ------------------------------------- POST /api/chat in streaming mode
\* The handler from the request to the end of the session it starts: the
\* checks, the Response with the stream, then start(controller) with the
\* adapter of the provider the request names.
StreamRecords == 1

StreamConfig(name, key) == [present |-> TRUE, provider |-> name, apiKey |-> key]

\* Requests for the provider of wire format w that ask for an event stream:
\* one that passes the checks, one with an invalid turn, one without a key
\* and one that names an unknown provider.
StreamRequests(w) ==
  {[received |-> TRUE, messages |-> "array", currentTurn |-> t,
    providers |-> [present |-> TRUE, defender |-> c, critic |-> c],
    env |-> {}, accept |-> "text/event-stream"] :
     t \in {"defender", "moderator"},
     c \in {StreamConfig(w, TRUE), StreamConfig("openai", FALSE),
            StreamConfig("other", TRUE)}}

\* POST up to `return new Response(stream, ...)`: start(controller) has run
\* to the first await of the adapter.
PostStream ==
  /\ request.received
  /\ httpResponse.status = 0
  /\ httpResponse' \in PostOutcomes(request)
  /\ cpc' = IF httpResponse'.kind = "stream" /\ httpResponse'.upstream
              THEN "loop" ELSE cpc
  /\ UNCHANGED <<mode, adapterVars, clientVars, builderVars, appVars, request,
                 chan, clientGone, outbound, closes, failedOps, escaped,
                 outAtGone, newReads>>

InitStream ==
  /\ mode = "stream"
  /\ InitGen(RelayStreams(StreamRecords))
  /\ InitController("idle")
  /\ InitNoClient
  /\ InitNoBuilder
  /\ InitNoApp
  /\ request \in StreamRequests(wire)
  /\ httpResponse = NoResponse

NextStream ==
  \/ PostStream
  \/ NextRelay

SpecStream == InitStream /\ [][NextStream]_vars

WithoutHidden(ms, r) == SelectSeq(ms, LAMBDA m : ~SkipsWhisper(m, r))

\* C37: the prompt the server builds for a role is the prompt it would build
\* from the same history without the whispers addressed to the other AI:
\* entries, turn count, sender list and window are the same.
C37_Original ==
  hpc = "server" =>
    prompt = buildConversationHistory(WithoutHidden(history, builtFor),
                                      builtFor)

\* The two builders on the messages a request body or a caller of the hook
\* can hold: any sender, flagged as a whisper or not, with targetAI missing
\* ("none"), 'River', 'Sage' or another name.
MaxBody == 3

TargetNames == {"none", "River", "Sage", "Bob"}

\* One more message of the list the builders are called with.
ReceiveMessage ==
  /\ hpc = "none"
  /\ Len(history) < MaxBody
  /\ \E sender \in Roles \cup {"user"}, w \in BOOLEAN, t \in TargetNames :
       history' = Append(history, NewMessage(history, sender, w, t))
  /\ UNCHANGED <<mode, adapterVars, relayVars, clientVars, postVars, appVars,
                 builtFor, prompt, hpc>>

NextWhisper ==
  \/ ReceiveMessage
  \/ BuildServer
  \/ BuildOllama

SpecWhisper == InitBuilder /\ [][NextWhisper]_vars

\* C38: in the prompt either builder makes for either role, no entry is made
\* from a message flagged isWhisper whose targetAI is missing or is neither
\* 'River' nor 'Sage', and every message not flagged isWhisper has its
\* entry, whatever its targetAI.
C38_MalformedWhisper ==
  hpc # "none" =>
    \A i \in 1..Len(history) :
      /\ (history[i].isWhisper /\ history[i].targetAI \notin {"River", "Sage"})
           => i \notin Bodies(prompt)
      /\ ~history[i].isWhisper => i \in Bodies(prompt)

\* Witness of C38: the Ollama prompt was built from a whisper without a
\* target, a whisper to an unknown name and a message that names River
\* without being a whisper; only the last has an entry.
C38_Witness ==
  /\ hpc = "ollama"
  /\ Len(history) = 3
  /\ history[1].isWhisper /\ history[1].targetAI = "none"
  /\ history[2].isWhisper /\ history[2].targetAI = "Bob"
  /\ ~history[3].isWhisper /\ history[3].targetAI = "River"
  /\ builtFor = "critic"
  /\ Bodies(prompt) = {0, 3}

\* ------------------------------------- PATCH /api/conversations/{id}
\* The fields of a conversation row the PATCH route can write, and request
\* bodies in which a field is a value or is not present ("undefined").
TextFields == {"title", "topic"}

ModelFields ==
  {"defenderModel", "defenderProvider", "criticModel", "criticProvider"}

PatchFieldNames == {"status"} \cup TextFields \cup ModelFields

\* A stored conversation.
StoredRow ==
  [f \in PatchFieldNames |->
     IF f = "status" THEN "ACTIVE" ELSE IF f \in TextFields THEN "x" ELSE "m0"]

EmptyBody == [f \in PatchFieldNames |-> "undefined"]

\* Bodies with a status alone, a title alone, a topic alone, both, model and
\* provider fields alone, and a status with a title.
PatchBodies ==
  {EmptyBody, [EmptyBody EXCEPT !.status = "PAUSED"]}
    \cup {[EmptyBody EXCEPT !.title = t] : t \in {"", "y"}}
    \cup {[EmptyBody EXCEPT !.topic = t] : t \in {"", "y"}}
    \cup {[EmptyBody EXCEPT !.title = t, !.topic = u] :
            t \in {"", "y"}, u \in {"", "y"}}
    \cup {[f \in PatchFieldNames |-> IF f \in fs THEN "m" ELSE "undefined"] :
            fs \in SUBSET ModelFields}
    \cup {[EmptyBody EXCEPT !.status = "PAUSED", !.title = "y"]}

\* `title || ''`
OrEmpty(v) == IF v = "undefined" THEN "" ELSE v

\* if (status) updateStatus(id, status)
AfterStatus(row, b) ==
  IF b.status \notin {"undefined", ""}
    THEN [row EXCEPT !.status = b.status] ELSE row

\* if (title !== undefined || topic !== undefined)
\*   updateTitleAndTopic(id, title || '', topic || '')
AfterTitleAndTopic(row, b) ==
  IF b.title # "undefined" \/ b.topic # "undefined"
    THEN [row EXCEPT !.title = OrEmpty(b.title), !.topic = OrEmpty(b.topic)]
    ELSE row

\* updateModelConfig(id, modelUpdates) with the fields that are present
AfterModelConfig(row, b) ==
  [f \in PatchFieldNames |->
     IF f \in ModelFields /\ b[f] # "undefined" THEN b[f] ELSE row[f]]

\* The handler makes an update.
Updates(b) ==
  \/ b.status \notin {"undefined", ""}
  \/ b.title # "undefined" \/ b.topic # "undefined"
  \/ \E f \in ModelFields : b[f] # "undefined"

\* PATCH /api/conversations/{id} with body b: the updates in turn, then the
\* answer with getById; an update of a row that does not exist throws.
PatchFields(id, b) ==
  /\ IF id \in DOMAIN convTable
       THEN /\ convTable' =
                 [convTable EXCEPT ![id] =
                    AfterModelConfig(
                      AfterTitleAndTopic(AfterStatus(convTable[id], b), b), b)]
            /\ dbResponse' = [op |-> "PATCH", id |-> id, status |-> 200,
                              rows |-> <<>>, body |-> b]
       ELSE /\ UNCHANGED convTable
            /\ dbResponse' = [op |-> "PATCH", id |-> id,
                              status |-> IF Updates(b) THEN 500 ELSE 200,
                              rows |-> <<>>, body |-> b]
  /\ UNCHANGED <<msgTable, nextCuid, msgCount, posting, deleted>>

\* One conversation is stored.
InitPatch ==
  /\ mode = "patch"
  /\ InitNoGen
  /\ InitController("idle")
  /\ InitNoClient
  /\ InitNoBuilder
  /\ InitNoPost
  /\ InitNoSlug
  /\ InitPage
  /\ InitHook
  /\ convTable = <<StoredRow>>
  /\ msgTable = <<>>
  /\ nextCuid = 2
  /\ msgCount = 0
  /\ posting = NoPosting
  /\ deleted = {}
  /\ dbResponse = NoDbResponse

NextPatch ==
  \E id \in ConversationIds, b \in PatchBodies : StoreStep(PatchFields(id, b))

SpecPatch == InitPatch /\ [][NextPatch]_vars

\* C39: a PATCH that answers success leaves every field of the row that its
\* body does not carry as it was: title and topic too when the body carries
\* only the other of the two.
C39_Original ==
  [][(dbResponse'.op = "PATCH" /\ dbResponse'.status = 200
        /\ dbResponse'.id \in DOMAIN convTable)
       => \A f \in PatchFieldNames :
            dbResponse'.body[f] = "undefined"
              => convTable'[dbResponse'.id][f] = convTable[dbResponse'.id][f]]_vars

====
